---- MODULE Spec2Model ----
(***************************************************************************)
(* Aegis-AI execution core: the command compiler (dsl), the execution     *)
(* orchestrator (Orchestrator.run and its preference function), the        *)
(* remote task client (AegisClient: the retry loop of request and the      *)
(* credential interceptor) and the remote task runner                      *)
(* (AegisRemoteAutomation.runTask with its poller).                        *)
(***************************************************************************)
EXTENDS Integers, Sequences, FiniteSets, TLC

VARIABLES
    \* ---- Orchestrator.run, one request ----
    env,          \* process.env[useAegisEnvVarName]
    request,      \* the CreateTaskRequest handed to run (mutated by ensureDslCommands)
    pc,           \* position of run: the await it is suspended at
    preferAegis,  \* const preferAegis of run
    commands,     \* const commands of run
    calls,        \* backend invocations made so far, in order
    remote,       \* the awaited value of aegis.runTask
    local,        \* the awaited value (or fault) of playwright.runDsl
    outcome,      \* how the promise returned by run settled
    \* ---- AegisClient.request, one call ----
    maxRetries,   \* retryConfig.maxRetries
    backend,      \* the number of attempts the HTTP backend fails before it succeeds
    answers,      \* what the backend answered to the attempts so far, in order
    classified,   \* what isRetriableError said of the last error, if it was asked
    cpc,          \* position of request
    attempt,      \* let attempt
    lastError,    \* let lastError
    httpAttempts, \* number of axios.request calls made
    delays,       \* the backoff delays slept so far, in order
    coutcome,     \* how the promise returned by request settled
    \* ---- AegisClient, the calls it sends out ----
    bearerToken,  \* config.bearerToken
    apiKey,       \* config.apiKey
    sent,         \* the calls handed to the network so far, with their headers
    \* ---- AegisRemoteAutomation.runTask, one call ----
    maxLogicalRetries, \* this.maxLogicalRetries
    rtRequest,    \* the CreateTaskRequest handed to runTask (mutated by it)
    rtOriginal,   \* that request as the caller built it
    rtOptions,    \* the RunTaskOptions handed to runTask
    rtpc,         \* position of runTask and pollUntilDone
    rtAttempt,    \* let attempt of the for loop
    rtLastError,  \* let lastError
    rtTimeoutMs,  \* const timeoutMs of the current attempt
    expired,      \* whether Date.now() - start > timeoutMs by now
    finalTask,    \* the task the last status poll returned
    backendCalls, \* calls of the client made so far, in order
    rtResult,     \* what the promise returned by runTask resolved to
    \* ---- the mock task backends ----
    mock,         \* which backend runs: aegis_server or lib/aegisMock
    tasks,        \* const tasks: the status of each task, "absent" for an id not in the Map
    results,      \* const results / taskResults: the status of each stored result, or "none"
    timers,       \* the timers of simulateTask / createMockTask that have yet to fire
    shouldFail,   \* const shouldFail of createMockTask
    sawTerminal,  \* the tasks a client was sent in a terminal status
    replied,      \* the last reply a handler sent
    \* ---- the compilers, one call ----
    compileInput, \* the argument of validateDslJson or parseDslText
    compileOutput,\* what the call returned or threw
    \* ---- proceduralMemory, one call ----
    memoryCall,   \* the function called and its arguments
    memoryReturn, \* what the call returned, and the record it was given as the call left it
    \* ---- proceduralMemory over a MemoryCore ----
    memoryItems,  \* private items of the MemoryCore: per user, per key, the item or none
    upserts,      \* the invocations of upsertProcedureFromCorrection: position, locals, and
                  \* which invocations on the same item were between load and save at its load
    lastLoad,     \* the last call of loadProcedure by a reader and what it resolved to
    \* ---- pollUntilDone against the clock ----
    now,          \* Date.now(), in ms since runTask was called
    start,        \* const start of pollUntilDone, -1 before it is first taken
    polledSince,  \* when the task now polled was created
    onBackend     \* the status the backend holds for that task

orchVars == <<env, request, pc, preferAegis, commands, calls, remote, local, outcome>>
clientVars == <<maxRetries, backend, answers, classified, cpc, attempt, lastError, httpAttempts, delays, coutcome>>
credVars == <<bearerToken, apiKey, sent>>
taskVars == <<maxLogicalRetries, rtRequest, rtOriginal, rtOptions, rtpc, rtAttempt, rtLastError,
              rtTimeoutMs, expired, finalTask, backendCalls, rtResult>>
mockVars == <<mock, tasks, results, timers, shouldFail, sawTerminal, replied>>
compileVars == <<compileInput, compileOutput>>
memoryVars == <<memoryCall, memoryReturn>>
storeVars == <<memoryItems, upserts, lastLoad>>
pollVars == <<now, start, polledSince, onBackend>>
vars == <<orchVars, clientVars, credVars, taskVars, mockVars, compileVars, memoryVars, storeVars, pollVars>>

(***************************************************************************)
(* JavaScript values, tagged by typeof.                                    *)
(***************************************************************************)
Undef == <<"undefined">>
NaN == <<"NaN">>
Str(s) == <<"string", s>>
Num(n) == <<"number", n>>
Bool(b) == <<"boolean", b>>

IsString(v) == v[1] = "string"

Truthy(v) ==
    \/ v[1] = "string" /\ v[2] # ""
    \/ v[1] = "number" /\ v[2] # 0
    \/ v[1] = "boolean" /\ v[2]

SetMin(S) == CHOOSE m \in S : \A n \in S : m <= n

(***************************************************************************)
(* dsl: the structured compiler.                                           *)
(***************************************************************************)
DSLCommandType == {"goto", "click", "fill", "waitForSelector", "waitForNavigation", "extract"}

\* args of a raw or compiled command: every field the compilers read or write
NoArgs == [url |-> Undef, selector |-> Undef, value |-> Undef, as |-> Undef,
           timeoutMs |-> Undef, multiple |-> Undef]

NoCommand == [type |-> "", args |-> NoArgs]
NoError == [message |-> "", index |-> 0, detail |-> ""]

Thrown(message, index, detail) ==
    [threw |-> TRUE, cmd |-> NoCommand,
     error |-> [message |-> message, index |-> index, detail |-> detail]]
Compiled(cmd) == [threw |-> FALSE, cmd |-> cmd, error |-> NoError]

\* a variant of the callback that checks the type of a command and not its fields
ValidateCommandKindOnly(raw, index) ==
    IF ~raw.isObject THEN Thrown("must be an object", index, "")
    ELSE IF ~(Truthy(raw.type) /\ IsString(raw.type))
    THEN Thrown("is missing a valid type", index, "")
    ELSE IF ~raw.argsIsObject THEN Thrown("is missing args", index, "")
    ELSE IF raw.type[2] \in DSLCommandType
    THEN Compiled([type |-> raw.type[2], args |-> raw.args])
    ELSE Thrown("Unknown DSL command type", index, raw.type[2])

\* the callback of dsl.map in validateDslJson, for the element raw at index
ValidateCommand(raw, index) ==
    IF ~raw.isObject THEN Thrown("must be an object", index, "")
    ELSE IF ~(Truthy(raw.type) /\ IsString(raw.type))
    THEN Thrown("is missing a valid type", index, "")
    ELSE IF ~raw.argsIsObject THEN Thrown("is missing args", index, "")
    ELSE LET type == raw.type[2]
             args == raw.args
             cmd == [type |-> type, args |-> args]
         IN CASE type = "goto" ->
                   IF ~Truthy(args.url) \/ ~IsString(args.url)
                   THEN Thrown("requires a url", index, type) ELSE Compiled(cmd)
              [] type = "click" ->
                   IF ~Truthy(args.selector)
                   THEN Thrown("requires a selector", index, type) ELSE Compiled(cmd)
              [] type = "fill" ->
                   IF ~Truthy(args.selector) \/ ~IsString(args.value)
                   THEN Thrown("requires selector and value", index, type) ELSE Compiled(cmd)
              [] type = "waitForSelector" ->
                   IF ~Truthy(args.selector)
                   THEN Thrown("requires selector", index, type) ELSE Compiled(cmd)
              [] type = "waitForNavigation" -> Compiled(cmd)
              [] type = "extract" ->
                   IF ~Truthy(args.selector) \/ ~Truthy(args.as)
                   THEN Thrown("requires selector and as", index, type) ELSE Compiled(cmd)
              [] OTHER -> Thrown("Unknown DSL command type", index, type)

\* outcome of a compiler: the sequence it returns, or the Error it throws
CompileThrew(error) == [threw |-> TRUE, commands |-> <<>>, error |-> error]
CompileReturned(cmds) == [threw |-> FALSE, commands |-> cmds, error |-> NoError]

\* a variant of validateDslJson that returns the commands last to first
validateDslJsonLastFirst(dsl) ==
    IF dsl.kind # "array"
    THEN CompileThrew([message |-> "DSL must be an array of commands", index |-> 0, detail |-> ""])
    ELSE LET n == Len(dsl.items)
             r == [i \in 1..n |-> ValidateCommand(dsl.items[i], i - 1)]
             bad == {i \in 1..n : r[i].threw}
         IN IF bad # {}
            THEN CompileThrew(r[SetMin(bad)].error)
            ELSE CompileReturned([i \in 1..n |-> r[n + 1 - i].cmd])

\* dsl: [kind |-> "absent" | "notArray" | "array", items |-> the elements]
validateDslJson(dsl) ==
    IF dsl.kind # "array"
    THEN CompileThrew([message |-> "DSL must be an array of commands", index |-> 0, detail |-> ""])
    ELSE LET r == [i \in 1..Len(dsl.items) |-> ValidateCommand(dsl.items[i], i - 1)]
             bad == {i \in 1..Len(dsl.items) : r[i].threw}
         IN IF bad # {}
            THEN CompileThrew(r[SetMin(bad)].error)
            ELSE CompileReturned([i \in 1..Len(dsl.items) |-> r[i].cmd])

(***************************************************************************)
(* dsl: the text compiler.  A text is the sequence of its lines; a line is *)
(* [kind, tokens]: kind "blank" (empty after trim), "comment" (starts with *)
(* '#' after trim) or "code", and tokens what tokenize returns for it (a   *)
(* code line made of quotes alone has no token).                           *)
(***************************************************************************)
toLowerCase(s) ==
    CASE s = "GOTO" -> "goto"
      [] s = "Click" -> "click"
      [] s = "waitForSelector" -> "waitforselector"
      [] s = "WAIT_FOR_NAVIGATION" -> "wait_for_navigation"
      [] s = "TRUE" -> "true"
      [] s = "False" -> "false"
      [] OTHER -> s

\* Number(token) for the tokens of the model
Number(s) ==
    CASE s = "0" -> Num(0)
      [] s = "250" -> Num(250)
      [] s = "5000" -> Num(5000)
      [] OTHER -> NaN

RECURSIVE join(_)
\* tokens.join(' ')
join(tokens) ==
    IF tokens = <<>> THEN ""
    ELSE IF Len(tokens) = 1 THEN tokens[1]
    ELSE tokens[1] \o " " \o join(Tail(tokens))

\* rest[i], undefined past the end
At(rest, i) == IF i <= Len(rest) THEN Str(rest[i]) ELSE Undef

\* the callback of lines.forEach in parseDslText, for a line with tokens
ParseLine(tokens, index) ==
    LET rawType == tokens[1]
        rest == Tail(tokens)
        type == toLowerCase(rawType)
        line == index + 1
    IN CASE type = "goto" ->
              IF ~Truthy(At(rest, 1)) THEN Thrown("goto requires a URL", line, "")
              ELSE Compiled([type |-> "goto", args |-> [NoArgs EXCEPT !.url = At(rest, 1)]])
         [] type = "click" ->
              IF ~Truthy(At(rest, 1)) THEN Thrown("click requires a selector", line, "")
              ELSE Compiled([type |-> "click", args |-> [NoArgs EXCEPT !.selector = At(rest, 1)]])
         [] type = "fill" ->
              LET value == Str(join(IF rest = <<>> THEN <<>> ELSE Tail(rest)))
              IN IF ~Truthy(At(rest, 1)) \/ ~Truthy(value)
                 THEN Thrown("fill requires selector and value", line, "")
                 ELSE Compiled([type |-> "fill",
                                args |-> [NoArgs EXCEPT !.selector = At(rest, 1), !.value = value]])
         [] type \in {"wait_for_selector", "waitforselector"} ->
              LET timeoutMs == IF Truthy(At(rest, 2)) THEN Number(rest[2]) ELSE Undef
              IN IF ~Truthy(At(rest, 1))
                 THEN Thrown("waitForSelector requires a selector", line, "")
                 ELSE Compiled([type |-> "waitForSelector",
                                args |-> [NoArgs EXCEPT !.selector = At(rest, 1),
                                                        !.timeoutMs = timeoutMs]])
         [] type \in {"wait_for_navigation", "waitfornavigation"} ->
              LET timeoutMs == IF Truthy(At(rest, 1)) THEN Number(rest[1]) ELSE Undef
              IN Compiled([type |-> "waitForNavigation",
                           args |-> [NoArgs EXCEPT !.timeoutMs = timeoutMs]])
         [] type = "extract" ->
              IF ~Truthy(At(rest, 1)) \/ ~Truthy(At(rest, 2))
              THEN Thrown("extract requires selector and as", line, "")
              ELSE Compiled([type |-> "extract",
                             args |-> [NoArgs EXCEPT !.selector = At(rest, 1),
                                                     !.as = At(rest, 2),
                                                     !.multiple = Bool(At(rest, 3) = Str("multiple"))]])
         [] OTHER -> Thrown("unknown command type", line, rawType)

\* text.split(/\r?\n/).map(trim).filter(l => l && !l.startsWith('#'))
FilterLines(text) == SelectSeq(text, LAMBDA l : l.kind = "code")

parseDslText(text) ==
    LET lines == FilterLines(text)
        live == {i \in 1..Len(lines) : lines[i].tokens # <<>>}
        r == [i \in live |-> ParseLine(lines[i].tokens, i - 1)]
        bad == {i \in live : r[i].threw}
        IsLive(i) == i \in live
        kept == SelectSeq([i \in 1..Len(lines) |-> i], IsLive)
    IN IF bad # {}
       THEN CompileThrew(r[SetMin(bad)].error)
       ELSE CompileReturned([k \in 1..Len(kept) |-> r[kept[k]].cmd])

(***************************************************************************)
(* Requests and environments the orchestrator is run on.                   *)
(***************************************************************************)
StepThreshold == 5
TargetThreshold == 3
InstructionThreshold == 500
\* how far past a threshold the request shapes of the model go
MaxExtra == 1

ExecutionModes == {"absent", "simple", "complex", "auto"}
NormalizedStatus == {"queued", "running", "completed", "failed", "cancelled", "timeout"}

RawCommand(type, args) ==
    [isObject |-> TRUE, type |-> type, argsIsObject |-> TRUE, args |-> args]

GotoOk == RawCommand(Str("goto"), [NoArgs EXCEPT !.url = Str("https://example.com")])
ClickOk == RawCommand(Str("click"), [NoArgs EXCEPT !.selector = Str("#go")])
GotoNoUrl == RawCommand(Str("goto"), NoArgs)
HoverUnknown == RawCommand(Str("hover"), [NoArgs EXCEPT !.selector = Str("#go")])
NotAnObject == [isObject |-> FALSE, type |-> Undef, argsIsObject |-> FALSE, args |-> NoArgs]

Repeat(x, n) == [i \in 1..n |-> x]

AbsentJson == [kind |-> "absent", items |-> <<>>]
NotArrayJson == [kind |-> "notArray", items |-> <<>>]
ArrayJson(items) == [kind |-> "array", items |-> items]

DslJsonInputs ==
    {AbsentJson, NotArrayJson}
    \cup {ArrayJson(Repeat(ClickOk, n)) : n \in 0..(StepThreshold + MaxExtra)}
    \cup {ArrayJson(<<GotoOk, GotoNoUrl>>), ArrayJson(<<GotoOk, HoverUnknown>>),
          ArrayJson(<<NotAnObject>>)}

BlankLine == [kind |-> "blank", tokens |-> <<>>]
CommentLine == [kind |-> "comment", tokens |-> <<"#", "login">>]
Code(tokens) == [kind |-> "code", tokens |-> tokens]

AbsentText == [kind |-> "absent", lines |-> <<>>]
\* lines <<>> is the empty string
Text(lines) == [kind |-> "text", lines |-> lines]

DslTextInputs ==
    {AbsentText, Text(<<>>), Text(<<BlankLine>>),
     Text(<<CommentLine, Code(<<"GOTO", "https://example.com">>), BlankLine,
            Code(<<"fill", "#name", "John", "Doe">>)>>),
     Text(<<Code(<<"goto", "https://example.com">>), CommentLine, Code(<<"hover", "#go">>)>>),
     Text(<<Code(<<"click">>)>>)}
    \cup {Text(Repeat(Code(<<"click", "#go">>), n)) :
            n \in StepThreshold..(StepThreshold + MaxExtra)}

Absent == [present |-> FALSE, length |-> 0]
OfLength(n) == [present |-> TRUE, length |-> n]

TargetsInputs == {Absent} \cup {OfLength(n) : n \in TargetThreshold..(TargetThreshold + MaxExtra)}
InstructionsInputs ==
    {Absent} \cup {OfLength(n) : n \in InstructionThreshold..(InstructionThreshold + MaxExtra)}

Requests ==
    [executionMode : ExecutionModes, dslJson : DslJsonInputs, dslText : DslTextInputs,
     targets : TargetsInputs, instructions : InstructionsInputs]

Unset == [set |-> FALSE, value |-> ""]
EnvSet(v) == [set |-> TRUE, value |-> v]
EnvInputs == {Unset} \cup {EnvSet(v) : v \in {"", "true", "TRUE", "1", "false", "False", "0", "yes"}}

(***************************************************************************)
(* Orchestrator.                                                           *)
(***************************************************************************)
\* the shape heuristics shared by shouldPreferAegis and inferComplexity
ShapeIsComplex(req) ==
    LET stepCount == IF req.dslJson.kind = "array" THEN Len(req.dslJson.items) ELSE 0
        targetCount == IF req.targets.present THEN req.targets.length ELSE 0
        instructionLength == IF req.instructions.present THEN req.instructions.length ELSE 0
    IN stepCount > StepThreshold \/ targetCount > TargetThreshold
       \/ instructionLength > InstructionThreshold

\* mutant: the env flag wins over an explicit execution mode
shouldPreferAegisEnvFirst(req, e) ==
    LET envValue == toLowerCase(IF e.set /\ e.value # "" THEN e.value ELSE "")
        explicitMode == req.executionMode
    IN IF envValue \in {"false", "0"} THEN FALSE
       ELSE IF envValue \in {"true", "1"} THEN TRUE
       ELSE IF explicitMode = "simple" THEN FALSE
       ELSE IF explicitMode = "complex" THEN TRUE
       ELSE ShapeIsComplex(req)

shouldPreferAegis(req, e) ==
    LET envValue == toLowerCase(IF e.set /\ e.value # "" THEN e.value ELSE "")
        explicitMode == req.executionMode
    IN IF envValue \in {"false", "0"} THEN explicitMode = "complex"
       ELSE IF envValue \in {"true", "1"} THEN explicitMode # "simple"
       ELSE IF explicitMode = "simple" THEN FALSE
       ELSE IF explicitMode = "complex" THEN TRUE
       ELSE ShapeIsComplex(req)

\* a compiled command seen again as an element of request.dslJson
AsRaw(cmd) == RawCommand(Str(cmd.type), cmd.args)

\* ensureDslCommands: what it returns or throws, and the request it leaves
ensureDslCommands(req) ==
    IF req.dslJson.kind # "absent"
    THEN LET r == validateDslJson(req.dslJson)
         IN [kind |-> IF r.threw THEN "threw" ELSE "commands",
             commands |-> r.commands, error |-> r.error, request |-> req]
    ELSE IF req.dslText.kind = "text" /\ req.dslText.lines # <<>>
    THEN LET r == parseDslText(req.dslText.lines)
         IN IF r.threw
            THEN [kind |-> "threw", commands |-> <<>>, error |-> r.error, request |-> req]
            ELSE [kind |-> "commands", commands |-> r.commands, error |-> NoError,
                  request |-> [req EXCEPT !.dslJson =
                      ArrayJson([i \in 1..Len(r.commands) |-> AsRaw(r.commands[i])])]]
    ELSE [kind |-> "undefined", commands |-> <<>>, error |-> NoError, request |-> req]

NoResult == [from |-> "none", status |-> "none"]
Result(from, status) == [from |-> from, status |-> status]
\* runDsl rejected
LocalFault == Result("local", "threw")

\* what aegis.runTask resolves to: every exit of runTask is a return
RunTaskResults == {Result("remote", s) : s \in NormalizedStatus}
\* what playwright.runDsl settles to: a result, or a thrown fault
RunDslResults == {Result("local", s) : s \in NormalizedStatus} \cup {LocalFault}

Pending == [kind |-> "pending", value |-> NoResult, error |-> NoError]
Returned(value) == [kind |-> "returned", value |-> value, error |-> NoError]
Raised(value, error) == [kind |-> "raised", value |-> value, error |-> error]

IsFailure(res) == res.status \in {"failed", "timeout"}

InitOrchestrator ==
    /\ env \in EnvInputs
    /\ request \in Requests
    /\ pc = "start"
    /\ preferAegis = FALSE
    /\ commands = [kind |-> "undefined", items |-> <<>>]
    /\ calls = <<>>
    /\ remote = NoResult
    /\ local = NoResult
    /\ outcome = Pending

\* mutant: the preference alone picks the first backend, script or not
FirstCallByPreference(kind, prefer) ==
    IF prefer THEN "remotePrimary" ELSE "localPrimary"

\* the branch of run that makes the first backend call
FirstCall(kind, prefer) ==
    IF kind = "undefined" THEN "remoteOnly"
    ELSE IF prefer THEN "remotePrimary"
    ELSE "localPrimary"

\* the backend a branch of run calls
BackendOf(branch) == IF branch = "localPrimary" THEN "local" ELSE "remote"

\* run, up to its first await (or to the fault of ensureDslCommands)
Run ==
    /\ pc = "start"
    /\ LET prefer == shouldPreferAegis(request, env)
           c == ensureDslCommands(request)
       IN /\ preferAegis' = prefer
          /\ request' = c.request
          /\ commands' = [kind |-> c.kind, items |-> c.commands]
          /\ IF c.kind = "threw"
             THEN /\ pc' = "done"
                  /\ outcome' = Raised(NoResult, c.error)
                  /\ calls' = calls
             ELSE /\ pc' = FirstCall(c.kind, prefer)
                  /\ calls' = Append(calls, BackendOf(FirstCall(c.kind, prefer)))
                  /\ outcome' = outcome
    /\ UNCHANGED <<env, remote, local, clientVars, credVars, taskVars, mockVars, compileVars, memoryVars, storeVars, pollVars>>

\* no commands: runTask settles and run returns its result
RemoteOnlySettles ==
    /\ pc = "remoteOnly"
    /\ \E res \in RunTaskResults :
          /\ remote' = res
          /\ outcome' = Returned(res)
    /\ pc' = "done"
    /\ UNCHANGED <<env, request, preferAegis, commands, calls, local, clientVars, credVars, taskVars, mockVars, compileVars, memoryVars, storeVars, pollVars>>

\* remote preferred, commands exist: runTask settles
RemotePrimarySettles ==
    /\ pc = "remotePrimary"
    /\ \E res \in RunTaskResults :
          /\ remote' = res
          /\ IF IsFailure(res)
             THEN /\ calls' = Append(calls, "local")
                  /\ pc' = "localFallback"
                  /\ outcome' = outcome
             ELSE /\ calls' = calls
                  /\ pc' = "done"
                  /\ outcome' = Returned(res)
    /\ UNCHANGED <<env, request, preferAegis, commands, local, clientVars, credVars, taskVars, mockVars, compileVars, memoryVars, storeVars, pollVars>>

\* the fallback runDsl settles: run returns its result, or its fault escapes
LocalFallbackSettles ==
    /\ pc = "localFallback"
    /\ \E res \in RunDslResults :
          /\ local' = res
          /\ outcome' = IF res = LocalFault
                        THEN Raised(res, [message |-> "runDsl fault", index |-> 0, detail |-> ""])
                        ELSE Returned(res)
    /\ pc' = "done"
    /\ UNCHANGED <<env, request, preferAegis, commands, calls, remote, clientVars, credVars, taskVars, mockVars, compileVars, memoryVars, storeVars, pollVars>>

\* mutant: no catch around runDsl, only its failed/timeout results fall back
LocalNeedsFallbackNoCatch(res) == IsFailure(res)

\* the try/catch of run: a thrown fault or a failed/timeout result of runDsl
LocalNeedsFallback(res) == res = LocalFault \/ IsFailure(res)

\* local preferred, commands exist: runDsl settles
LocalPrimarySettles ==
    /\ pc = "localPrimary"
    /\ \E res \in RunDslResults :
          /\ local' = res
          /\ IF LocalNeedsFallback(res)
             THEN /\ calls' = Append(calls, "remote")
                  /\ pc' = "remoteFallback"
                  /\ outcome' = outcome
             ELSE /\ calls' = calls
                  /\ pc' = "done"
                  /\ outcome' = Returned(res)
    /\ UNCHANGED <<env, request, preferAegis, commands, remote, clientVars, credVars, taskVars, mockVars, compileVars, memoryVars, storeVars, pollVars>>

\* mutant: a failed fallback runTask sends run back to the local driver
RemoteFallbackRetriesLocal ==
    /\ pc = "remoteFallback"
    /\ \E res \in RunTaskResults :
          /\ remote' = res
          /\ IF IsFailure(res)
             THEN /\ calls' = Append(calls, "local")
                  /\ pc' = "localPrimary"
                  /\ outcome' = outcome
             ELSE /\ calls' = calls
                  /\ pc' = "done"
                  /\ outcome' = Returned(res)
    /\ UNCHANGED <<env, request, preferAegis, commands, local, clientVars, credVars, taskVars, mockVars, compileVars, memoryVars, storeVars, pollVars>>

\* the fallback runTask settles and run returns its result
RemoteFallbackSettles ==
    /\ pc = "remoteFallback"
    /\ \E res \in RunTaskResults :
          /\ remote' = res
          /\ outcome' = Returned(res)
    /\ pc' = "done"
    /\ UNCHANGED <<env, request, preferAegis, commands, calls, local, clientVars, credVars, taskVars, mockVars, compileVars, memoryVars, storeVars, pollVars>>

NextOrchestrator ==
    \/ Run
    \/ RemoteOnlySettles
    \/ RemotePrimarySettles
    \/ LocalFallbackSettles
    \/ LocalPrimarySettles
    \/ RemoteFallbackSettles

(***************************************************************************)
(* AegisClient: error classification and the retry loop of request.        *)
(***************************************************************************)
DefaultMaxRetries == 3
BaseDelayMs == 500
JitterRange == 100
\* largest maxRetries a client of the model is configured with
MaxConfigRetries == 3

\* an error thrown by axios.request: status 0 stands for no response
Error(isAxios, code, timeoutMessage, status) ==
    [isAxios |-> isAxios, code |-> code, timeoutMessage |-> timeoutMessage, status |-> status]
NoFailure == Error(FALSE, "", FALSE, 0)

HttpStatuses == {304, 400, 404, 408, 429, 499, 500, 503, 599}

\* axios' settle: the code it gives a rejected response
ResponseCode(status) ==
    IF status >= 400 /\ status <= 499 THEN "ERR_BAD_REQUEST"
    ELSE IF status >= 500 /\ status <= 599 THEN "ERR_BAD_RESPONSE"
    ELSE ""

\* the errors axios.request rejects with: a non-axios fault (e.g. thrown while
\* serializing the body), a timeout, a failure without response, a response
\* outside 2xx (whose message, "Request failed with status code N", and code
\* never speak of a timeout)
Errors ==
    {Error(FALSE, "", FALSE, 0),
     Error(TRUE, "ECONNABORTED", TRUE, 0),
     Error(TRUE, "ETIMEDOUT", FALSE, 0),
     Error(TRUE, "ERR_NETWORK", FALSE, 0)}
    \cup {Error(TRUE, ResponseCode(st), FALSE, st) : st \in HttpStatuses}

\* mutant: 429 is left non-retriable
isRetriableErrorNo429(err) ==
    IF ~err.isAxios THEN FALSE
    ELSE IF err.code = "ECONNABORTED" \/ err.code = "ETIMEDOUT" \/ err.timeoutMessage THEN TRUE
    ELSE IF err.status = 0 THEN TRUE
    ELSE err.status >= 500 /\ err.status <= 599

isRetriableError(err) ==
    IF ~err.isAxios THEN FALSE
    ELSE IF err.code = "ECONNABORTED" \/ err.code = "ETIMEDOUT" \/ err.timeoutMessage THEN TRUE
    ELSE IF err.status = 0 THEN TRUE
    ELSE IF err.status >= 500 /\ err.status <= 599 THEN TRUE
    ELSE IF err.status = 429 THEN TRUE
    ELSE FALSE

\* config.maxRetries ?? 3
ConfiguredRetries(config) == IF config.present THEN config.value ELSE DefaultMaxRetries

RetryConfigs ==
    {[present |-> FALSE, value |-> 0]}
    \cup {[present |-> TRUE, value |-> n] : n \in 0..MaxConfigRetries}

RECURSIVE Pow2(_)
Pow2(n) == IF n <= 0 THEN 1 ELSE 2 * Pow2(n - 1)

\* mutant: the delay grows linearly with the attempt
BackoffLinear(n, jitter) == BaseDelayMs * n + jitter

\* baseDelayMs * 2^(attempt - 1) + jitter
Backoff(n, jitter) == BaseDelayMs * Pow2(n - 1) + jitter

\* Math.random() * 100, at the two ends of its range
Jitters == {0, JitterRange - 1}

\* what the backend does to one attempt
Answers == {[ok |-> TRUE, error |-> NoFailure]} \cup {[ok |-> FALSE, error |-> e] : e \in Errors}

CPending == [kind |-> "pending", error |-> NoFailure]
CResolved == [kind |-> "resolved", error |-> NoFailure]
CRejected(err) == [kind |-> "rejected", error |-> err]

\* the backend fails 0, 1, ... attempts and then succeeds, or fails them all
BackendPlans ==
    0..((IF MaxConfigRetries > DefaultMaxRetries THEN MaxConfigRetries ELSE DefaultMaxRetries) + 1)

InitClient ==
    /\ maxRetries \in {ConfiguredRetries(c) : c \in RetryConfigs}
    /\ backend \in BackendPlans
    /\ answers = <<>>
    /\ classified = "notAsked"
    /\ cpc = "loop"
    /\ attempt = 0
    /\ lastError = NoFailure
    /\ httpAttempts = 0
    /\ delays = <<>>
    /\ coutcome = CPending

\* while (attempt <= maxRetries): issue axios.request, or leave the loop and
\* throw lastError
LoopTest ==
    /\ cpc = "loop"
    /\ IF attempt <= maxRetries
       THEN /\ httpAttempts' = httpAttempts + 1
            /\ cpc' = "awaitResponse"
            /\ coutcome' = coutcome
       ELSE /\ httpAttempts' = httpAttempts
            /\ cpc' = "done"
            /\ coutcome' = CRejected(lastError)
    /\ UNCHANGED <<maxRetries, backend, answers, classified, attempt, lastError, delays, orchVars, credVars, taskVars, mockVars, compileVars, memoryVars, storeVars, pollVars>>

\* axios.request resolves: return response.data
ResponseArrives ==
    /\ cpc = "awaitResponse"
    /\ httpAttempts > backend
    /\ answers' = Append(answers, [ok |-> TRUE, error |-> NoFailure])
    /\ cpc' = "done"
    /\ coutcome' = CResolved
    /\ UNCHANGED <<maxRetries, backend, classified, attempt, lastError, httpAttempts, delays,
                   orchVars, credVars, taskVars, mockVars, compileVars, memoryVars, storeVars, pollVars>>

\* mutant: the loop gives up one attempt early
RetriesExhaustedEarly(n, limit) == n >= limit

\* mutant: the catch block never gives up on a retriable error
RetriesNeverExhausted(n, limit) == FALSE

\* attempt > retryConfig.maxRetries, with attempt already incremented
RetriesExhausted(n, limit) == n > limit

\* axios.request rejects: the catch block
RequestFails ==
    /\ cpc = "awaitResponse"
    /\ httpAttempts <= backend
    /\ \E err \in Errors :
          /\ answers' = Append(answers, [ok |-> FALSE, error |-> err])
          /\ lastError' = err
          /\ attempt' = attempt + 1
          /\ classified' = IF RetriesExhausted(attempt + 1, maxRetries) THEN "notAsked"
                            ELSE IF isRetriableError(err) THEN "retriable"
                            ELSE "nonRetriable"
          /\ IF RetriesExhausted(attempt + 1, maxRetries) \/ ~isRetriableError(err)
             THEN /\ cpc' = "done"
                  /\ coutcome' = CRejected(err)
                  /\ delays' = delays
             ELSE /\ \E jitter \in Jitters :
                        delays' = Append(delays, Backoff(attempt + 1, jitter))
                  /\ cpc' = "delay"
                  /\ coutcome' = coutcome
    /\ UNCHANGED <<maxRetries, backend, httpAttempts, orchVars, credVars, taskVars, mockVars, compileVars, memoryVars, storeVars, pollVars>>

\* the backoff timer fires
DelayElapses ==
    /\ cpc = "delay"
    /\ cpc' = "loop"
    /\ UNCHANGED <<maxRetries, backend, answers, classified, attempt, lastError, httpAttempts,
                   delays, coutcome, orchVars, credVars, taskVars, mockVars, compileVars, memoryVars, storeVars, pollVars>>

NextClient ==
    \/ LoopTest
    \/ ResponseArrives
    \/ RequestFails
    \/ DelayElapses

(***************************************************************************)
(* AegisClient: the request interceptor and the calls it lets out.         *)
(***************************************************************************)
\* largest number of calls a client of the model sends
MaxCalls == 2

\* config.bearerToken and config.apiKey: absent, empty, or a secret
CredentialInputs == {Undef, Str(""), Str("secret")}

\* the public methods: each builds one config and hands it to request
ClientMethods ==
    {"createTask", "getTask", "getTaskResult", "cancelTask",
     "createMonitor", "getMonitor", "deleteMonitor", "getArtifact"}

\* the credential headers of a call, Undef where the header is not set; no
\* method puts a header in its config
NoHeaders == [Authorization |-> Undef, xApiKey |-> Undef]

\* the request interceptor installed by the constructor
Interceptor(headers, bearer, key) ==
    IF Truthy(bearer) THEN [headers EXCEPT !.Authorization = Str("Bearer " \o bearer[2])]
    ELSE IF Truthy(key) THEN [headers EXCEPT !.xApiKey = key]
    ELSE headers

InitCredentials ==
    /\ bearerToken \in CredentialInputs
    /\ apiKey \in CredentialInputs
    /\ sent = <<>>

\* a method's call reaches axios.request: the interceptor runs on its config
\* and the call goes out
Send ==
    /\ Len(sent) < MaxCalls
    /\ \E method \in ClientMethods :
          sent' = Append(sent, [method |-> method,
                                headers |-> Interceptor(NoHeaders, bearerToken, apiKey)])
    /\ UNCHANGED <<bearerToken, apiKey, orchVars, clientVars, taskVars, mockVars, compileVars, memoryVars, storeVars, pollVars>>

NextCredentials == Send

(***************************************************************************)
(* AegisRemoteAutomation: runTask and pollUntilDone.                       *)
(***************************************************************************)
DefaultWorkflowTimeoutMsSimple == 300000
DefaultWorkflowTimeoutMsComplex == 600000
DefaultMaxLogicalRetries == 3
\* largest maxLogicalRetries an instance of the model is configured with
MaxLogicalConfig == 2
\* largest number of status polls that find one task still running
MaxRunningPolls == 1

TerminalStatus == {"completed", "failed", "cancelled", "timeout"}
\* the statuses getTask answers with
PolledStatus == {"running"} \cup TerminalStatus

\* request.options
NoOptions == [present |-> FALSE, maxDurationMs |-> Undef]
Options(maxDurationMs) == [present |-> TRUE, maxDurationMs |-> maxDurationMs]
OptionsInputs == {NoOptions, Options(Num(0)), Options(Num(1000))}

TaskRequest(mode, json, text, targets, instructions, options) ==
    [executionMode |-> mode, dslJson |-> json, dslText |-> text, targets |-> targets,
     instructions |-> instructions, options |-> options]

\* the scripts, targets and instructions runTask is given: scripts that
\* compile and scripts that do not, on either side of each complexity threshold
TaskShapes ==
    {<<"absent", ArrayJson(<<GotoOk>>), AbsentText, Absent, Absent>>,
     <<"auto", ArrayJson(Repeat(ClickOk, StepThreshold + 1)), AbsentText, Absent, Absent>>,
     <<"absent", AbsentJson, Text(Repeat(Code(<<"click", "#go">>), StepThreshold + 1)),
       Absent, Absent>>,
     <<"absent", AbsentJson, Text(<<Code(<<"click">>)>>), Absent, Absent>>,
     <<"auto", ArrayJson(<<GotoNoUrl>>), AbsentText, Absent, Absent>>,
     <<"complex", ArrayJson(<<GotoOk>>), AbsentText, Absent, Absent>>,
     <<"simple", ArrayJson(Repeat(ClickOk, StepThreshold + 1)), AbsentText, Absent, Absent>>,
     <<"auto", AbsentJson, AbsentText, OfLength(TargetThreshold + 1), Absent>>,
     <<"absent", AbsentJson, AbsentText, Absent, OfLength(InstructionThreshold + 1)>>,
     <<"auto", ArrayJson(Repeat(ClickOk, StepThreshold)), AbsentText,
       OfLength(TargetThreshold), OfLength(InstructionThreshold)>>}

\* the requests: every shape without options, and the structured scripts left
\* in auto mode with each of the options
TaskRequests ==
    {TaskRequest(shape[1], shape[2], shape[3], shape[4], shape[5], NoOptions) :
        shape \in TaskShapes}
    \cup {TaskRequest(shape[1], shape[2], shape[3], shape[4], shape[5], options) :
            shape \in {sh \in TaskShapes : sh[1] # "simple" /\ sh[1] # "complex"
                                           /\ sh[2].kind = "array" /\ sh[4] = Absent},
            options \in OptionsInputs}

\* RunTaskOptions: the fields runTask reads besides the polling interval
RunTaskOptionsInputs ==
    [workflowTimeoutMs : {Undef, Num(120000)},
     complexityHint : {Undef, Str("simple"), Str("complex")}]

\* options?.maxLogicalRetries ?? 3 of the constructor
ConfiguredLogicalRetries(config) ==
    IF config.present THEN config.value ELSE DefaultMaxLogicalRetries

LogicalRetryConfigs ==
    {[present |-> FALSE, value |-> 0]}
    \cup {[present |-> TRUE, value |-> n] : n \in 1..MaxLogicalConfig}

inferComplexity(req) ==
    IF req.executionMode = "simple" THEN "simple"
    ELSE IF req.executionMode = "complex" THEN "complex"
    ELSE IF ShapeIsComplex(req) THEN "complex"
    ELSE "simple"

\* ensureValidDsl: what it returns or throws, and the request it leaves
ensureValidDsl(req) == ensureDslCommands(req)

\* const complexity = options?.complexityHint ?? this.inferComplexity(request)
Complexity(req, options) ==
    IF options.complexityHint # Undef THEN options.complexityHint[2] ELSE inferComplexity(req)

\* const timeoutMs = options?.workflowTimeoutMs ?? (complex default or simple default)
Budget(req, options) ==
    IF options.workflowTimeoutMs # Undef THEN options.workflowTimeoutMs[2]
    ELSE IF Complexity(req, options) = "complex" THEN DefaultWorkflowTimeoutMsComplex
    ELSE DefaultWorkflowTimeoutMsSimple

\* mutant: the budget always replaces the option of the request
WithMaxDurationAlways(options, budget) == Options(Num(budget))

\* request.options = request.options ?? {}; then maxDurationMs is set to the
\* budget unless the request carries a truthy one
WithMaxDuration(options, budget) ==
    IF Truthy(options.maxDurationMs) THEN Options(options.maxDurationMs)
    ELSE Options(Num(budget))

\* what a method of the client rejects with once request has given up: a
\* response the client does not retry, or the last of the retried ones
ClientFaults ==
    {Error(TRUE, ResponseCode(404), FALSE, 404), Error(TRUE, ResponseCode(503), FALSE, 503)}

\* the values of lastError: nothing yet, the poller's TASK_TIMEOUT, a fault of
\* the client, or the error of a fetched result
NoLastError == [kind |-> "none", error |-> NoFailure]
TaskTimeout == [kind |-> "TASK_TIMEOUT", error |-> NoFailure]
ClientFault(err) == [kind |-> "client", error |-> err]
ResultFault == [kind |-> "result", error |-> NoFailure]

\* the error of a TaskResult (ErrorResponse, retriable optional)
NoResultError == [present |-> FALSE, retriable |-> Undef]
ResultError(retriable) == [present |-> TRUE, retriable |-> retriable]
ResultErrors == {NoResultError, ResultError(Bool(TRUE)), ResultError(Bool(FALSE)), ResultError(Undef)}

\* a call of the client, as it is issued: the create carries the maxDurationMs
\* it sends and the budget its task will be polled with
BackendCall(op, task, maxDurationMs, budget) ==
    [op |-> op, task |-> task, outcome |-> "inFlight", answer |-> NoResultError,
     maxDurationMs |-> maxDurationMs, budget |-> budget]

\* the call in flight settles: resolved or rejected, a status poll as running
\* or terminal by the status it brought
Settle(log, settled) == [log EXCEPT ![Len(log)].outcome = settled]
\* getTaskResult resolves with a result carrying this error
SettleResult(log, error) ==
    [log EXCEPT ![Len(log)].outcome = "resolved", ![Len(log)].answer = error]

Created(log) == Cardinality({i \in 1..Len(log) : log[i].op = "createTask"})
RunningPolls(log, task) ==
    Cardinality({i \in 1..Len(log) : log[i].op = "getTask" /\ log[i].task = task
                                      /\ log[i].outcome = "running"})

\* NormalizedAutomationResult: status, error code and flag, debug.attempts
NotReturned == [status |-> "none", code |-> Undef, retriable |-> Undef, attempts |-> Undef]
Normalized(status, code, retriable, attempts) ==
    [status |-> status, code |-> code, retriable |-> retriable, attempts |-> attempts]

\* status = result?.status ?? task.status; error = result?.error ?? task.error,
\* the polled task carrying no error of its own
normalizeResult(taskStatus, result, attempts) ==
    Normalized(IF result.status # "none" THEN result.status ELSE taskStatus,
               IF result.error.present THEN Str("backend") ELSE Undef,
               IF result.error.present THEN result.error.retriable ELSE Undef,
               Num(attempts))

\* mutant: the compile failure is reported as retriable
InvalidDslRetriable == Normalized("failed", Str("INVALID_DSL"), Bool(TRUE), Undef)

\* the results runTask builds itself
InvalidDslResult == Normalized("failed", Str("INVALID_DSL"), Bool(FALSE), Undef)
TimeoutResult == Normalized("timeout", Str("TIMEOUT"), Bool(FALSE), Undef)
ClientErrorResult(attempts) ==
    Normalized("failed", Str("CLIENT_OR_TASK_ERROR"), Bool(FALSE), Num(attempts))
UnknownResult == Normalized("failed", Str("UNKNOWN"), Undef, Undef)

InitRunTask ==
    /\ maxLogicalRetries \in {ConfiguredLogicalRetries(c) : c \in LogicalRetryConfigs}
    /\ rtRequest \in TaskRequests
    /\ rtOriginal = rtRequest
    /\ rtOptions \in RunTaskOptionsInputs
    /\ rtpc = "start"
    /\ rtAttempt = 0
    /\ rtLastError = NoLastError
    /\ rtTimeoutMs = 0
    /\ expired = FALSE
    /\ finalTask = "none"
    /\ backendCalls = <<>>
    /\ rtResult = NotReturned

\* try { this.ensureValidDsl(request) } catch: return the INVALID_DSL result
Validate ==
    /\ rtpc = "start"
    /\ LET r == ensureValidDsl(rtRequest)
       IN IF r.kind = "threw"
          THEN /\ rtResult' = InvalidDslResult
               /\ rtpc' = "done"
               /\ UNCHANGED <<rtRequest, rtAttempt>>
          ELSE /\ rtRequest' = r.request
               /\ rtAttempt' = 1
               /\ rtpc' = "loop"
               /\ UNCHANGED rtResult
    /\ UNCHANGED <<maxLogicalRetries, rtOriginal, rtOptions, rtLastError, rtTimeoutMs, expired,
                   finalTask, backendCalls, orchVars, clientVars, credVars, mockVars, compileVars, memoryVars, storeVars, pollVars>>

\* the test of the for loop: the body up to the createTask call, or the
\* return after the loop
LoopHead ==
    /\ rtpc = "loop"
    /\ IF rtAttempt <= maxLogicalRetries
       THEN LET budget == Budget(rtRequest, rtOptions)
                options == WithMaxDuration(rtRequest.options, budget)
            IN /\ rtTimeoutMs' = budget
               /\ rtRequest' = [rtRequest EXCEPT !.options = options]
               /\ backendCalls' = Append(backendCalls,
                      BackendCall("createTask", Created(backendCalls) + 1,
                                  options.maxDurationMs, Num(budget)))
               /\ rtpc' = "awaitCreate"
               /\ UNCHANGED rtResult
       ELSE /\ rtResult' = UnknownResult
            /\ rtpc' = "done"
            /\ UNCHANGED <<rtTimeoutMs, rtRequest, backendCalls>>
    /\ UNCHANGED <<maxLogicalRetries, rtOriginal, rtOptions, rtAttempt, rtLastError, expired,
                   finalTask, orchVars, clientVars, credVars, mockVars, compileVars, memoryVars, storeVars, pollVars>>

\* attempt >= attempts
GivesUp(n, limit) == n >= limit

\* mutant: the poller's fault is not told from a fault of the client
IsTaskTimeoutNever(err) == FALSE

\* err instanceof Error && err.message === 'TASK_TIMEOUT'
IsTaskTimeout(err) == err = TaskTimeout

\* a variant without the try block around the loop body: the error leaves
\* runTask
CatchNothing(err) ==
    /\ rtLastError' = err
    /\ rtpc' = "raised"
    /\ UNCHANGED <<rtAttempt, rtResult>>

\* the catch block of the loop body, then attempt += 1 where it falls through
Catch(err) ==
    /\ rtLastError' = err
    /\ IF IsTaskTimeout(err)
       THEN /\ rtResult' = TimeoutResult
            /\ rtpc' = "done"
            /\ UNCHANGED rtAttempt
       ELSE IF GivesUp(rtAttempt, maxLogicalRetries)
       THEN /\ rtResult' = ClientErrorResult(maxLogicalRetries)
            /\ rtpc' = "done"
            /\ UNCHANGED rtAttempt
       ELSE /\ rtAttempt' = rtAttempt + 1
            /\ rtpc' = "loop"
            /\ UNCHANGED rtResult

\* createTask resolves: pollUntilDone is entered and takes its start time
CreateResolves ==
    /\ rtpc = "awaitCreate"
    /\ backendCalls' = Settle(backendCalls, "resolved")
    /\ expired' = FALSE
    /\ rtpc' = "pollCheck"
    /\ UNCHANGED <<maxLogicalRetries, rtRequest, rtOriginal, rtOptions, rtAttempt, rtLastError,
                   rtTimeoutMs, finalTask, rtResult, orchVars, clientVars, credVars, mockVars, compileVars, memoryVars, storeVars, pollVars>>

\* createTask rejects
CreateRejects ==
    /\ rtpc = "awaitCreate"
    /\ backendCalls' = Settle(backendCalls, "rejected")
    /\ \E err \in ClientFaults : Catch(ClientFault(err))
    /\ UNCHANGED <<maxLogicalRetries, rtRequest, rtOriginal, rtOptions, rtTimeoutMs, expired,
                   finalTask, orchVars, clientVars, credVars, mockVars, compileVars, memoryVars, storeVars, pollVars>>

\* the top of the while loop of pollUntilDone: throw TASK_TIMEOUT, or call
\* getTask
PollCheck ==
    /\ rtpc = "pollCheck"
    /\ IF expired
       THEN /\ Catch(TaskTimeout)
            /\ UNCHANGED backendCalls
       ELSE /\ backendCalls' = Append(backendCalls,
                   BackendCall("getTask", Created(backendCalls), Undef, Undef))
            /\ rtpc' = "awaitTask"
            /\ UNCHANGED <<rtAttempt, rtLastError, rtResult>>
    /\ UNCHANGED <<maxLogicalRetries, rtRequest, rtOriginal, rtOptions, rtTimeoutMs, expired,
                   finalTask, orchVars, clientVars, credVars, mockVars, compileVars, memoryVars, storeVars, pollVars>>

\* mutant: the poller sleeps after every status
AfterPollAlwaysSleeps(status) == "sleep"

\* the branch of pollUntilDone after a status poll
AfterPoll(status) == IF status \in TerminalStatus THEN "awaitResult" ELSE "sleep"

\* getTask resolves: a terminal status leads straight to the getTaskResult
\* call, any other status to the sleep
TaskArrives ==
    /\ rtpc = "awaitTask"
    /\ \E status \in PolledStatus :
          LET seen == Settle(backendCalls,
                             IF status \in TerminalStatus THEN "terminal" ELSE "running")
          IN /\ status \notin TerminalStatus =>
                   RunningPolls(backendCalls, Created(backendCalls)) < MaxRunningPolls
             /\ finalTask' = status
             /\ rtpc' = AfterPoll(status)
             /\ backendCalls' =
                   IF AfterPoll(status) = "awaitResult"
                   THEN Append(seen, BackendCall("getTaskResult", Created(backendCalls),
                                                 Undef, Undef))
                   ELSE seen
    /\ UNCHANGED <<maxLogicalRetries, rtRequest, rtOriginal, rtOptions, rtAttempt, rtLastError,
                   rtTimeoutMs, expired, rtResult, orchVars, clientVars, credVars, mockVars, compileVars, memoryVars, storeVars, pollVars>>

\* getTask rejects
TaskRejects ==
    /\ rtpc = "awaitTask"
    /\ backendCalls' = Settle(backendCalls, "rejected")
    /\ \E err \in ClientFaults : Catch(ClientFault(err))
    /\ UNCHANGED <<maxLogicalRetries, rtRequest, rtOriginal, rtOptions, rtTimeoutMs, expired,
                   finalTask, orchVars, clientVars, credVars, mockVars, compileVars, memoryVars, storeVars, pollVars>>

\* the polling interval elapses; the poll and the sleep may or may not have
\* used up the budget
SleepElapses ==
    /\ rtpc = "sleep"
    /\ expired' \in BOOLEAN
    /\ rtpc' = "pollCheck"
    /\ UNCHANGED <<maxLogicalRetries, rtRequest, rtOriginal, rtOptions, rtAttempt, rtLastError,
                   rtTimeoutMs, finalTask, backendCalls, rtResult, orchVars, clientVars, credVars, mockVars, compileVars, memoryVars, storeVars, pollVars>>

\* mutant: a failed task restarts whatever its error says
RestartsOnAnyFailure(status, error, n, limit) == status = "failed" /\ n < limit

\* finalTask.status === 'failed' && result?.error?.retriable && attempt < attempts
Restarts(status, error, n, limit) ==
    status = "failed" /\ error.present /\ Truthy(error.retriable) /\ n < limit

\* getTaskResult resolves: continue with the next attempt, or return the
\* normalized result
ResultArrives ==
    /\ rtpc = "awaitResult"
    /\ \E error \in ResultErrors :
          LET result == [status |-> finalTask, error |-> error]
          IN /\ backendCalls' = SettleResult(backendCalls, error)
             /\ IF Restarts(finalTask, error, rtAttempt, maxLogicalRetries)
                THEN /\ rtLastError' = ResultFault
                     /\ rtAttempt' = rtAttempt + 1
                     /\ rtpc' = "loop"
                     /\ UNCHANGED rtResult
                ELSE /\ rtResult' = normalizeResult(finalTask, result, rtAttempt)
                     /\ rtpc' = "done"
                     /\ UNCHANGED <<rtAttempt, rtLastError>>
    /\ UNCHANGED <<maxLogicalRetries, rtRequest, rtOriginal, rtOptions, rtTimeoutMs, expired,
                   finalTask, orchVars, clientVars, credVars, mockVars, compileVars, memoryVars, storeVars, pollVars>>

\* getTaskResult rejects
ResultRejects ==
    /\ rtpc = "awaitResult"
    /\ backendCalls' = Settle(backendCalls, "rejected")
    /\ \E err \in ClientFaults : Catch(ClientFault(err))
    /\ UNCHANGED <<maxLogicalRetries, rtRequest, rtOriginal, rtOptions, rtTimeoutMs, expired,
                   finalTask, orchVars, clientVars, credVars, mockVars, compileVars, memoryVars, storeVars, pollVars>>

NextRunTask ==
    \/ Validate
    \/ LoopHead
    \/ CreateResolves
    \/ CreateRejects
    \/ PollCheck
    \/ TaskArrives
    \/ TaskRejects
    \/ SleepElapses
    \/ ResultArrives
    \/ ResultRejects

(***************************************************************************)
(* runTask over the transport of the client and with a caller's onEvent.   *)
(* createTask is this.request around axios.request: the position of its    *)
(* retry loop is kept in attempt, and httpAttempts counts the requests to   *)
(* the task-creation endpoint that were answered during the invocation     *)
(* (one more is in flight while runTask awaits createTask).  The status     *)
(* and result calls stay at the level of the client's methods.             *)
(***************************************************************************)
\* the requests of the invocations followed through the transport: a script
\* that compiles, one that does not, and a text script
RemoteRunRequests ==
    {TaskRequest("absent", ArrayJson(<<GotoOk>>), AbsentText, Absent, Absent, NoOptions),
     TaskRequest("auto", ArrayJson(<<GotoNoUrl>>), AbsentText, Absent, Absent, NoOptions),
     TaskRequest("absent", AbsentJson, Text(<<Code(<<"click", "#go">>)>>), Absent, Absent,
                 Options(Num(1000)))}

\* what a throwing onEvent throws: some error, or one whose message is the
\* poller's TASK_TIMEOUT
EventFault == [kind |-> "onEvent", error |-> NoFailure]
EventFaults == {EventFault, TaskTimeout}

\* runTask is called with one of these requests and no RunTaskOptions
InitFollowed ==
    /\ maxLogicalRetries \in {ConfiguredLogicalRetries(c) : c \in LogicalRetryConfigs}
    /\ rtRequest \in RemoteRunRequests
    /\ rtOriginal = rtRequest
    /\ rtOptions = [workflowTimeoutMs |-> Undef, complexityHint |-> Undef]
    /\ rtpc = "start"
    /\ rtAttempt = 0
    /\ rtLastError = NoLastError
    /\ rtTimeoutMs = 0
    /\ expired = FALSE
    /\ finalTask = "none"
    /\ backendCalls = <<>>
    /\ rtResult = NotReturned

\* the client it runs over is configured and has no request under way
InitTransport ==
    /\ maxRetries \in {ConfiguredRetries(c) : c \in RetryConfigs}
    /\ backend = 0
    /\ answers = <<>>
    /\ classified = "notAsked"
    /\ cpc = "rest"
    /\ attempt = 0
    /\ lastError = NoFailure
    /\ httpAttempts = 0
    /\ delays = <<>>
    /\ coutcome = CPending

\* axios.request resolves inside createTask: request returns response.data
\* and runTask enters pollUntilDone
CreateRequestResolves ==
    /\ rtpc = "awaitCreate"
    /\ httpAttempts' = httpAttempts + 1
    /\ attempt' = 0
    /\ backendCalls' = Settle(backendCalls, "resolved")
    /\ expired' = FALSE
    /\ rtpc' = "pollCheck"
    /\ UNCHANGED <<maxLogicalRetries, rtRequest, rtOriginal, rtOptions, rtAttempt, rtLastError,
                   rtTimeoutMs, finalTask, rtResult>>
    /\ UNCHANGED <<maxRetries, backend, answers, classified, cpc, lastError, delays, coutcome>>
    /\ UNCHANGED <<orchVars, credVars, mockVars, compileVars, memoryVars, storeVars, pollVars>>

\* axios.request rejects inside createTask and the catch block of request
\* goes on: attempt += 1, the backoff delay, and the request is sent again
CreateRequestRetried ==
    /\ rtpc = "awaitCreate"
    /\ \E err \in ClientFaults :
          /\ ~(RetriesExhausted(attempt + 1, maxRetries) \/ ~isRetriableError(err))
          /\ lastError' = err
    /\ attempt' = attempt + 1
    /\ httpAttempts' = httpAttempts + 1
    /\ UNCHANGED taskVars
    /\ UNCHANGED <<maxRetries, backend, answers, classified, cpc, delays, coutcome>>
    /\ UNCHANGED <<orchVars, credVars, mockVars, compileVars, memoryVars, storeVars, pollVars>>

\* axios.request rejects inside createTask and the catch block of request
\* throws: createTask rejects and runTask's catch block runs
CreateRequestRejects ==
    /\ rtpc = "awaitCreate"
    /\ \E err \in ClientFaults :
          /\ RetriesExhausted(attempt + 1, maxRetries) \/ ~isRetriableError(err)
          /\ lastError' = err
          /\ Catch(ClientFault(err))
    /\ attempt' = 0
    /\ httpAttempts' = httpAttempts + 1
    /\ backendCalls' = Settle(backendCalls, "rejected")
    /\ UNCHANGED <<maxLogicalRetries, rtRequest, rtOriginal, rtOptions, rtTimeoutMs, expired,
                   finalTask>>
    /\ UNCHANGED <<maxRetries, backend, answers, classified, cpc, delays, coutcome>>
    /\ UNCHANGED <<orchVars, credVars, mockVars, compileVars, memoryVars, storeVars, pollVars>>

\* getTask resolves and onEvent, called with the status event, throws
StatusEventThrows ==
    /\ rtpc = "awaitTask"
    /\ \E status \in PolledStatus :
          /\ status \notin TerminalStatus =>
                RunningPolls(backendCalls, Created(backendCalls)) < MaxRunningPolls
          /\ finalTask' = status
          /\ backendCalls' = Settle(backendCalls,
                                    IF status \in TerminalStatus THEN "terminal" ELSE "running")
    /\ \E err \in EventFaults : Catch(err)
    /\ UNCHANGED <<maxLogicalRetries, rtRequest, rtOriginal, rtOptions, rtTimeoutMs, expired>>
    /\ UNCHANGED <<clientVars, orchVars, credVars, mockVars, compileVars, memoryVars, storeVars, pollVars>>

\* getTaskResult resolves and onEvent, called with the result event, throws
ResultEventThrows ==
    /\ rtpc = "awaitResult"
    /\ \E error \in ResultErrors : backendCalls' = SettleResult(backendCalls, error)
    /\ \E err \in EventFaults : Catch(err)
    /\ UNCHANGED <<maxLogicalRetries, rtRequest, rtOriginal, rtOptions, rtTimeoutMs, expired,
                   finalTask>>
    /\ UNCHANGED <<clientVars, orchVars, credVars, mockVars, compileVars, memoryVars, storeVars, pollVars>>

NextRemoteRun ==
    \/ Validate
    \/ LoopHead
    \/ CreateRequestResolves
    \/ CreateRequestRetried
    \/ CreateRequestRejects
    \/ PollCheck
    \/ TaskArrives
    \/ TaskRejects
    \/ SleepElapses
    \/ ResultArrives
    \/ ResultRejects

(***************************************************************************)
(* pollUntilDone against the clock.  Time passes while the poller sleeps;  *)
(* the task goes its way on the backend meanwhile.  expired is what the     *)
(* test Date.now() - start > timeoutMs gives at the top of the iteration.  *)
(***************************************************************************)
DefaultPollingIntervalMs == 1500

\* how long a sleep with the poll before it takes: the interval, the whole
\* budget, or longer
SleepTimes(budget) == {DefaultPollingIntervalMs, budget, budget + 1}

\* a variant that keeps the start time of the first task
StartOfInvocation(clock, earlier) == IF earlier < 0 THEN clock ELSE earlier
\* const start = Date.now() on entry to pollUntilDone
StartOfPolling(clock, earlier) == clock

\* a variant in which the poller times out only if the task is not terminal
ExpiredUnlessTerminal(clock, since, budget, held) ==
    clock - since > budget /\ held \notin TerminalStatus
\* Date.now() - start > timeoutMs
Expired(clock, since, budget, held) == clock - since > budget

\* how a task's status moves on the backend
BackendMoves(held) == IF held \in TerminalStatus THEN {held} ELSE PolledStatus

InitPolling ==
    /\ now = 0
    /\ start = -1
    /\ polledSince = 0
    /\ onBackend = "none"

\* createTask resolves: pollUntilDone is entered and takes its start time
PollingBegins ==
    /\ rtpc = "awaitCreate"
    /\ backendCalls' = Settle(backendCalls, "resolved")
    /\ start' = StartOfPolling(now, start)
    /\ polledSince' = now
    /\ onBackend' = "running"
    /\ expired' = Expired(now, start', rtTimeoutMs, onBackend')
    /\ rtpc' = "pollCheck"
    /\ UNCHANGED now
    /\ UNCHANGED <<maxLogicalRetries, rtRequest, rtOriginal, rtOptions, rtAttempt, rtLastError,
                   rtTimeoutMs, finalTask, rtResult>>
    /\ UNCHANGED <<orchVars, clientVars, credVars, mockVars, compileVars, memoryVars, storeVars>>

\* getTask resolves with the status the backend holds by then
StatusArrives ==
    /\ rtpc = "awaitTask"
    /\ \E status \in BackendMoves(onBackend) :
          LET seen == Settle(backendCalls,
                             IF status \in TerminalStatus THEN "terminal" ELSE "running")
          IN /\ status \notin TerminalStatus =>
                   RunningPolls(backendCalls, Created(backendCalls)) < MaxRunningPolls
             /\ onBackend' = status
             /\ finalTask' = status
             /\ rtpc' = AfterPoll(status)
             /\ backendCalls' =
                   IF AfterPoll(status) = "awaitResult"
                   THEN Append(seen, BackendCall("getTaskResult", Created(backendCalls),
                                                 Undef, Undef))
                   ELSE seen
    /\ UNCHANGED <<now, start, polledSince>>
    /\ UNCHANGED <<maxLogicalRetries, rtRequest, rtOriginal, rtOptions, rtAttempt, rtLastError,
                   rtTimeoutMs, expired, rtResult>>
    /\ UNCHANGED <<orchVars, clientVars, credVars, mockVars, compileVars, memoryVars, storeVars>>

\* the sleep ends and the loop is back at its clock test
SleepTakes ==
    /\ rtpc = "sleep"
    /\ \E ms \in SleepTimes(rtTimeoutMs) : now' = now + ms
    /\ onBackend' \in BackendMoves(onBackend)
    /\ expired' = Expired(now', start, rtTimeoutMs, onBackend')
    /\ rtpc' = "pollCheck"
    /\ UNCHANGED <<start, polledSince>>
    /\ UNCHANGED <<maxLogicalRetries, rtRequest, rtOriginal, rtOptions, rtAttempt, rtLastError,
                   rtTimeoutMs, finalTask, backendCalls, rtResult>>
    /\ UNCHANGED <<orchVars, clientVars, credVars, mockVars, compileVars, memoryVars, storeVars>>

NextPolling ==
    \/ Validate
    \/ LoopHead
    \/ PollingBegins
    \/ CreateRejects
    \/ PollCheck
    \/ StatusArrives
    \/ TaskRejects
    \/ SleepTakes
    \/ ResultArrives
    \/ ResultRejects

NextRunTaskEvents ==
    \/ NextRunTask
    \/ StatusEventThrows
    \/ ResultEventThrows

(***************************************************************************)
(* The mock task backends: aegis_server (Express) and lib/aegisMock (the   *)
(* in-process service behind the Next.js routes).  A handler and a timer   *)
(* callback run to completion on the event loop, so each is one step; the  *)
(* two timers of a task and the requests of clients come in any order.     *)
(***************************************************************************)
\* how many tasks the clients create
MaxTasks == 2

TaskIds == 1..MaxTasks
MockBackends == {"server", "lib"}

\* the reply a handler sends: status is the status field of its body
NoReply == [op |-> "none", id |-> 0, code |-> 0, status |-> "none"]
Reply(op, id, code, status) == [op |-> op, id |-> id, code |-> code, status |-> status]

\* uuidv4() / `task_${Date.now()}_...`: an id no task has yet
NextId == Cardinality({id \in TaskIds : tasks[id] # "absent"}) + 1

\* the test of the first timer: only a queued task starts running
TimerStarts(status) == status = "queued"

\* a variant of the second timer without its test
TimerEndsAlways(status) == status = status
\* the test of the second timer: a task that is still running or queued ends
TimerEnds(status) == status \in {"running", "queued"}

\* a variant of cancel that cancels whatever the state
CancelRefusedNever(status) == status # status
\* the test of cancel: a task in one of these states is left alone
CancelRefused(status) == status \in {"completed", "failed", "cancelled", "timeout"}

InitMock ==
    /\ mock \in MockBackends
    /\ tasks = [id \in TaskIds |-> "absent"]
    /\ results = [id \in TaskIds |-> "none"]
    /\ timers = [id \in TaskIds |-> {}]
    /\ shouldFail = [id \in TaskIds |-> FALSE]
    /\ sawTerminal = [id \in TaskIds |-> FALSE]
    /\ replied = NoReply

\* what a client learns from a task body it is sent
Sees(id, status) ==
    sawTerminal' = [sawTerminal EXCEPT ![id] = @ \/ status \in TerminalStatus]

\* ---- aegis_server ----
\* POST /tasks, with or without a taskType in the body
ServerPostTasks(valid) ==
    /\ mock = "server"
    /\ valid => NextId \in TaskIds
    /\ IF ~valid
       THEN /\ replied' = Reply("create", 0, 400, "none")
            /\ UNCHANGED <<tasks, timers>>
       ELSE /\ tasks' = [tasks EXCEPT ![NextId] = "queued"]
            /\ timers' = [timers EXCEPT ![NextId] = {"start", "end"}]
            /\ replied' = Reply("create", NextId, 202, "queued")
    /\ UNCHANGED <<mock, results, shouldFail, sawTerminal>>
    /\ UNCHANGED <<orchVars, clientVars, credVars, taskVars, compileVars, memoryVars, storeVars, pollVars>>

\* simulateTask: the callback of the 500 ms timer
ServerTimerStart(id) ==
    /\ mock = "server"
    /\ "start" \in timers[id]
    /\ timers' = [timers EXCEPT ![id] = @ \ {"start"}]
    /\ tasks' = IF TimerStarts(tasks[id]) THEN [tasks EXCEPT ![id] = "running"] ELSE tasks
    /\ UNCHANGED <<mock, results, shouldFail, sawTerminal, replied>>
    /\ UNCHANGED <<orchVars, clientVars, credVars, taskVars, compileVars, memoryVars, storeVars, pollVars>>

\* simulateTask: the callback of the 3000 ms timer
ServerTimerEnd(id) ==
    /\ mock = "server"
    /\ "end" \in timers[id]
    /\ timers' = [timers EXCEPT ![id] = @ \ {"end"}]
    /\ IF TimerEnds(tasks[id])
       THEN /\ tasks' = [tasks EXCEPT ![id] = "completed"]
            /\ results' = [results EXCEPT ![id] = "completed"]
       ELSE UNCHANGED <<tasks, results>>
    /\ UNCHANGED <<mock, shouldFail, sawTerminal, replied>>
    /\ UNCHANGED <<orchVars, clientVars, credVars, taskVars, compileVars, memoryVars, storeVars, pollVars>>

\* GET /tasks/:id
ServerGetTask(id) ==
    /\ mock = "server"
    /\ IF tasks[id] = "absent"
       THEN /\ replied' = Reply("get", id, 404, "none")
            /\ UNCHANGED sawTerminal
       ELSE /\ replied' = Reply("get", id, 200, tasks[id])
            /\ Sees(id, tasks[id])
    /\ UNCHANGED <<mock, tasks, results, timers, shouldFail>>
    /\ UNCHANGED <<orchVars, clientVars, credVars, taskVars, compileVars, memoryVars, storeVars, pollVars>>

\* a variant of the body whose shell says queued
ResultBodyQueuedShell(status, stored) == IF stored = "none" THEN "queued" ELSE stored
\* the status in the body of GET /tasks/:id/result: that of the stored result,
\* or of a shell built from the task
ResultBody(status, stored) == IF stored = "none" THEN status ELSE stored

\* GET /tasks/:id/result
ServerGetResult(id) ==
    /\ mock = "server"
    /\ replied' = IF tasks[id] = "absent" THEN Reply("result", id, 404, "none")
                  ELSE Reply("result", id, 200, ResultBody(tasks[id], results[id]))
    /\ UNCHANGED <<mock, tasks, results, timers, shouldFail, sawTerminal>>
    /\ UNCHANGED <<orchVars, clientVars, credVars, taskVars, compileVars, memoryVars, storeVars, pollVars>>

\* POST /tasks/:id/cancel
ServerCancel(id) ==
    /\ mock = "server"
    /\ IF tasks[id] = "absent"
       THEN /\ replied' = Reply("cancel", id, 404, "none")
            /\ UNCHANGED <<tasks, results, sawTerminal>>
       ELSE IF CancelRefused(tasks[id])
       THEN /\ replied' = Reply("cancel", id, 409, tasks[id])
            /\ UNCHANGED <<tasks, results, sawTerminal>>
       ELSE /\ tasks' = [tasks EXCEPT ![id] = "cancelled"]
            /\ results' = [results EXCEPT ![id] = "cancelled"]
            /\ replied' = Reply("cancel", id, 200, "cancelled")
            /\ Sees(id, "cancelled")
    /\ UNCHANGED <<mock, timers, shouldFail>>
    /\ UNCHANGED <<orchVars, clientVars, credVars, taskVars, compileVars, memoryVars, storeVars, pollVars>>

\* ---- lib/aegisMock, behind the routes of app/api/tasks ----
\* POST /api/tasks and createMockTask; fail is input.simulateFailure ?? Math.random() < 0.1
LibCreateTask(valid, fail) ==
    /\ mock = "lib"
    /\ valid => NextId \in TaskIds
    /\ IF ~valid
       THEN /\ replied' = Reply("create", 0, 400, "none")
            /\ UNCHANGED <<tasks, timers, shouldFail>>
       ELSE /\ tasks' = [tasks EXCEPT ![NextId] = "queued"]
            /\ timers' = [timers EXCEPT ![NextId] = {"start", "end"}]
            /\ shouldFail' = [shouldFail EXCEPT ![NextId] = fail]
            /\ replied' = Reply("create", NextId, 202, "queued")
    /\ UNCHANGED <<mock, results, sawTerminal>>
    /\ UNCHANGED <<orchVars, clientVars, credVars, taskVars, compileVars, memoryVars, storeVars, pollVars>>

\* createMockTask: the callback of the 500 ms timer
LibTimerStart(id) ==
    /\ mock = "lib"
    /\ "start" \in timers[id]
    /\ timers' = [timers EXCEPT ![id] = @ \ {"start"}]
    /\ tasks' = IF TimerStarts(tasks[id]) THEN [tasks EXCEPT ![id] = "running"] ELSE tasks
    /\ UNCHANGED <<mock, results, shouldFail, sawTerminal, replied>>
    /\ UNCHANGED <<orchVars, clientVars, credVars, taskVars, compileVars, memoryVars, storeVars, pollVars>>

\* createMockTask: the callback of the 3000 ms timer
LibTimerEnd(id) ==
    /\ mock = "lib"
    /\ "end" \in timers[id]
    /\ timers' = [timers EXCEPT ![id] = @ \ {"end"}]
    /\ IF TimerEnds(tasks[id])
       THEN LET ended == IF shouldFail[id] THEN "failed" ELSE "completed"
            IN /\ tasks' = [tasks EXCEPT ![id] = ended]
               /\ results' = [results EXCEPT ![id] = ended]
       ELSE UNCHANGED <<tasks, results>>
    /\ UNCHANGED <<mock, shouldFail, sawTerminal, replied>>
    /\ UNCHANGED <<orchVars, clientVars, credVars, taskVars, compileVars, memoryVars, storeVars, pollVars>>

\* GET /api/tasks/:id and getTask
LibGetTask(id) ==
    /\ mock = "lib"
    /\ IF tasks[id] = "absent"
       THEN /\ replied' = Reply("get", id, 404, "none")
            /\ UNCHANGED sawTerminal
       ELSE /\ replied' = Reply("get", id, 200, tasks[id])
            /\ Sees(id, tasks[id])
    /\ UNCHANGED <<mock, tasks, results, timers, shouldFail>>
    /\ UNCHANGED <<orchVars, clientVars, credVars, taskVars, compileVars, memoryVars, storeVars, pollVars>>

\* GET /api/tasks/:id/result and getTaskResult: no result, no body
LibGetResult(id) ==
    /\ mock = "lib"
    /\ replied' = IF results[id] = "none" THEN Reply("result", id, 404, "none")
                  ELSE Reply("result", id, 200, results[id])
    /\ UNCHANGED <<mock, tasks, results, timers, shouldFail, sawTerminal>>
    /\ UNCHANGED <<orchVars, clientVars, credVars, taskVars, compileVars, memoryVars, storeVars, pollVars>>

\* POST /api/tasks/:id/cancel and cancelTask: a finished task is returned as it is
LibCancel(id) ==
    /\ mock = "lib"
    /\ IF tasks[id] = "absent"
       THEN /\ replied' = Reply("cancel", id, 404, "none")
            /\ UNCHANGED <<tasks, results, sawTerminal>>
       ELSE IF CancelRefused(tasks[id])
       THEN /\ replied' = Reply("cancel", id, 200, tasks[id])
            /\ UNCHANGED <<tasks, results>>
            /\ Sees(id, tasks[id])
       ELSE /\ tasks' = [tasks EXCEPT ![id] = "cancelled"]
            /\ results' = [results EXCEPT ![id] = "cancelled"]
            /\ replied' = Reply("cancel", id, 200, "cancelled")
            /\ Sees(id, "cancelled")
    /\ UNCHANGED <<mock, timers, shouldFail>>
    /\ UNCHANGED <<orchVars, clientVars, credVars, taskVars, compileVars, memoryVars, storeVars, pollVars>>

NextMock ==
    \/ \E valid \in BOOLEAN : ServerPostTasks(valid)
    \/ \E id \in TaskIds : ServerTimerStart(id)
    \/ \E id \in TaskIds : ServerTimerEnd(id)
    \/ \E id \in TaskIds : ServerGetTask(id)
    \/ \E id \in TaskIds : ServerGetResult(id)
    \/ \E id \in TaskIds : ServerCancel(id)
    \/ \E valid, fail \in BOOLEAN : LibCreateTask(valid, fail)
    \/ \E id \in TaskIds : LibTimerStart(id)
    \/ \E id \in TaskIds : LibTimerEnd(id)
    \/ \E id \in TaskIds : LibGetTask(id)
    \/ \E id \in TaskIds : LibGetResult(id)
    \/ \E id \in TaskIds : LibCancel(id)

(***************************************************************************)
(* The compilers on their own: one call of validateDslJson or of           *)
(* parseDslText on an input of the caller's choice.                        *)
(***************************************************************************)
\* the longest structured list and the longest text (in lines) compiled
MaxCommands == 2
MaxLines == 3

SeqsUpTo(S, n) == UNION {[1..k -> S] : k \in 0..n}

\* elements of a structured list: for each check of validateDslJson one that
\* passes it and one that fails it
RawCommandInputs ==
    {GotoOk, GotoNoUrl, ClickOk, HoverUnknown, NotAnObject,
     RawCommand(Str("goto"), [NoArgs EXCEPT !.url = Str("")]),
     RawCommand(Str("goto"), [NoArgs EXCEPT !.url = Num(5)]),
     RawCommand(Str("GOTO"), [NoArgs EXCEPT !.url = Str("https://example.com")]),
     RawCommand(Str("click"), NoArgs),
     RawCommand(Str("click"), [NoArgs EXCEPT !.selector = Str("")]),
     RawCommand(Str("fill"), [NoArgs EXCEPT !.selector = Str("#q"), !.value = Str("hi")]),
     RawCommand(Str("fill"), [NoArgs EXCEPT !.selector = Str("#q"), !.value = Str("")]),
     RawCommand(Str("fill"), [NoArgs EXCEPT !.selector = Str("#q"), !.value = Num(5)]),
     RawCommand(Str("fill"), [NoArgs EXCEPT !.selector = Str("#q")]),
     RawCommand(Str("fill"), [NoArgs EXCEPT !.value = Str("hi")]),
     RawCommand(Str("waitForSelector"), [NoArgs EXCEPT !.selector = Str("#x"), !.timeoutMs = Num(250)]),
     RawCommand(Str("waitForSelector"), [NoArgs EXCEPT !.timeoutMs = Num(250)]),
     RawCommand(Str("waitForNavigation"), NoArgs),
     RawCommand(Str("extract"), [NoArgs EXCEPT !.selector = Str("#t"), !.as = Str("title")]),
     RawCommand(Str("extract"), [NoArgs EXCEPT !.selector = Str("#t")]),
     RawCommand(Str("extract"), [NoArgs EXCEPT !.as = Str("title")]),
     RawCommand(Undef, [NoArgs EXCEPT !.selector = Str("#go")]),
     RawCommand(Num(5), [NoArgs EXCEPT !.selector = Str("#go")]),
     RawCommand(Str(""), [NoArgs EXCEPT !.selector = Str("#go")]),
     [isObject |-> TRUE, type |-> Str("waitForNavigation"), argsIsObject |-> FALSE, args |-> NoArgs]}

StructuredInputs ==
    {AbsentJson, NotArrayJson} \cup {ArrayJson(items) : items \in SeqsUpTo(RawCommandInputs, MaxCommands)}

\* lines of a text: blank, comment, quotes alone, and for each command a line
\* with and without its operands, in the spellings parseDslText accepts
LineInputs ==
    {BlankLine, CommentLine, Code(<<>>),
     Code(<<"goto", "https://example.com">>), Code(<<"GOTO">>),
     Code(<<"Click", "#go">>),
     Code(<<"fill", "#q", "hello", "world">>), Code(<<"fill", "#q">>),
     Code(<<"wait_for_selector", "#x">>), Code(<<"waitForSelector", "#x", "250">>),
     Code(<<"wait_for_selector", "#x", "soon">>),
     Code(<<"WAIT_FOR_NAVIGATION">>), Code(<<"waitfornavigation", "5000">>),
     Code(<<"wait_for_navigation", "soon">>),
     Code(<<"extract", "#t", "title", "multiple">>), Code(<<"extract", "#t">>),
     Code(<<"hover", "#go">>)}

TextInputs == SeqsUpTo(LineInputs, MaxLines)

StructuredInput(json) == [form |-> "structured", json |-> json, lines |-> <<>>]
TextInput(lines) == [form |-> "text", json |-> AbsentJson, lines |-> lines]

NotCalled == [state |-> "notCalled", result |-> CompileReturned(<<>>)]
Settled(result) == [state |-> "settled", result |-> result]

InitCompile ==
    /\ compileInput \in {StructuredInput(json) : json \in StructuredInputs}
                            \cup {TextInput(lines) : lines \in TextInputs}
    /\ compileOutput = NotCalled

\* validateDslJson(dsl), to its return or throw
CallValidateDslJson ==
    /\ compileInput.form = "structured"
    /\ compileOutput = NotCalled
    /\ compileOutput' = Settled(validateDslJson(compileInput.json))
    /\ UNCHANGED compileInput
    /\ UNCHANGED <<orchVars, clientVars, credVars, taskVars, mockVars, memoryVars, storeVars, pollVars>>

\* parseDslText(text), to its return or throw
CallParseDslText ==
    /\ compileInput.form = "text"
    /\ compileOutput = NotCalled
    /\ compileOutput' = Settled(parseDslText(compileInput.lines))
    /\ UNCHANGED compileInput
    /\ UNCHANGED <<orchVars, clientVars, credVars, taskVars, mockVars, memoryVars, storeVars, pollVars>>

\* a variant of the storing that keeps the name of each command and drops
\* what it was given
StoredWithoutArgs(cmds) ==
    ArrayJson([i \in 1..Len(cmds) |-> RawCommand(Str(cmds[i].type), Undef)])
\* request.dslJson = commands: the compiled commands as the request holds them
Stored(cmds) == ArrayJson([i \in 1..Len(cmds) |-> AsRaw(cmds[i])])

\* the request a caller of ensureDslCommands / ensureValidDsl is left with
\* after its text was compiled
RequestWith(lines, cmds) ==
    TaskRequest("absent", Stored(cmds), Text(lines), Absent, Absent, NoOptions)

\* the text compiled and was stored into the request; runTask's
\* ensureValidDsl is called on that request
CallEnsureValidDslAgain ==
    /\ compileInput.form = "text"
    /\ compileOutput.state = "settled"
    /\ ~compileOutput.result.threw
    /\ compileOutput' =
          [state |-> "validatedAgain", result |-> compileOutput.result,
           again |-> ensureValidDsl(RequestWith(compileInput.lines,
                                                compileOutput.result.commands))]
    /\ UNCHANGED compileInput
    /\ UNCHANGED <<orchVars, clientVars, credVars, taskVars, mockVars, memoryVars, storeVars, pollVars>>

NextCompile ==
    \/ CallValidateDslJson
    \/ CallParseDslText
    \/ CallEnsureValidDslAgain

(***************************************************************************)
(* proceduralMemory: one call of computeCorrectionPatch or of              *)
(* addVersionFromExecution.  An object is the sequence of its entries in   *)
(* insertion order; inputs may be undefined (ExecutionStepTrace.inputs is  *)
(* of type any).                                                           *)
(***************************************************************************)
\* the longest trace (in steps) and the longest version list of the calls
MaxSteps == 2
MaxVersions == 2

Undefined == [defined |-> FALSE, entries |-> <<>>]
Object(entries) == [defined |-> TRUE, entries |-> entries]

\* x ?? {}
OrEmpty(x) == IF x.defined THEN x ELSE Object(<<>>)

Literal(n) == IF n = 1 THEN "1" ELSE "2"

RECURSIVE Members(_)
Members(entries) ==
    IF entries = <<>> THEN ""
    ELSE "\"" \o entries[1][1] \o "\":" \o Literal(entries[1][2])
         \o (IF Len(entries) > 1 THEN "," ELSE "") \o Members(Tail(entries))

\* JSON.stringify of an object: its entries in insertion order
JSONstringify(x) == "{" \o Members(x.entries) \o "}"

StepTrace(stepId, tool, inputs, outputs) ==
    [stepId |-> stepId, tool |-> tool, inputs |-> inputs, outputs |-> outputs]
NoStep == StepTrace("", Undef, Undefined, 0)

InputsInputs ==
    {Undefined, Object(<<>>), Object(<<<<"a", 1>>>>),
     Object(<<<<"a", 1>>, <<"b", 2>>>>), Object(<<<<"b", 2>>, <<"a", 1>>>>)}

\* the steps of the traces: s1 with every inputs, with another tool and with
\* other outputs; s2 and s3 with fewer
StepInputs ==
    {StepTrace("s1", Str("web.navigate"), i, 1) : i \in InputsInputs}
    \cup {StepTrace("s1", Str("web.click"), Object(<<>>), 1),
          StepTrace("s1", Undef, Object(<<>>), 1),
          StepTrace("s1", Str("web.navigate"), Object(<<>>), 2)}
    \cup {StepTrace("s2", Str("web.click"), i, 1) :
            i \in {Object(<<>>), Object(<<<<"a", 1>>, <<"b", 2>>>>), Object(<<<<"b", 2>>, <<"a", 1>>>>)}}
    \cup {StepTrace("s3", Str("web.extract"), Object(<<<<"a", 1>>>>), 1)}

ExecutionTrace(steps) == [taskKey |-> "orders.export", userId |-> "u1", steps |-> steps]

\* traces whose steps have different ids
TraceInputs ==
    {ExecutionTrace(steps) : steps \in
        {s \in SeqsUpTo(StepInputs, MaxSteps) :
            \A i, j \in 1..Len(s) : i # j => s[i].stepId # s[j].stepId}}

\* new Map(), then set(s.stepId, s) for each step: the keys in insertion order
MapKeys(steps) ==
    LET IsFirst(i) == \A j \in 1..(i - 1) : steps[j].stepId # steps[i].stepId
        firsts == SelectSeq([i \in 1..Len(steps) |-> i], IsFirst)
    IN [k \in 1..Len(firsts) |-> steps[firsts[k]].stepId]
MapHas(steps, stepId) == \E i \in 1..Len(steps) : steps[i].stepId = stepId
\* get(stepId): the last step set under the key
MapGet(steps, stepId) ==
    LET at == {i \in 1..Len(steps) : steps[i].stepId = stepId}
    IN steps[CHOOSE i \in at : \A j \in at : j <= i]

StepChange(stepId, changeType, before, after) ==
    [stepId |-> stepId, changeType |-> changeType, before |-> before, after |-> after]

\* beforeInputs !== afterInputs
InputsDiffer(beforeStep, afterStep) ==
    JSONstringify(OrEmpty(beforeStep.inputs)) # JSONstringify(OrEmpty(afterStep.inputs))

computeCorrectionPatch(agentTrace, userTrace) ==
    LET agentKeys == MapKeys(agentTrace.steps)
        userKeys == MapKeys(userTrace.steps)
        \* the body of the first loop, for one entry of agentById
        First(stepId) ==
            LET beforeStep == MapGet(agentTrace.steps, stepId)
            IN IF ~MapHas(userTrace.steps, stepId)
               THEN <<StepChange(stepId, "removed", beforeStep, NoStep)>>
               ELSE IF InputsDiffer(beforeStep, MapGet(userTrace.steps, stepId))
               THEN <<StepChange(stepId, "modified", beforeStep, MapGet(userTrace.steps, stepId))>>
               ELSE <<>>
        \* the body of the second loop, for one entry of userById
        Second(stepId) ==
            IF ~MapHas(agentTrace.steps, stepId)
            THEN <<StepChange(stepId, "added", NoStep, MapGet(userTrace.steps, stepId))>>
            ELSE <<>>
        Flat(seqs) ==
            LET F[k \in 0..Len(seqs)] == IF k = 0 THEN <<>> ELSE F[k - 1] \o seqs[k]
            IN F[Len(seqs)]
    IN [taskKey |-> agentTrace.taskKey,
        userId |-> userTrace.userId,
        changes |-> Flat([k \in 1..Len(agentKeys) |-> First(agentKeys[k])])
                      \o Flat([k \in 1..Len(userKeys) |-> Second(userKeys[k])])]

patchIsMeaningful(patch) == Len(patch.changes) > 0

\* ---- addVersionFromExecution ----
StepTemplate(s) ==
    [stepId |-> s.stepId,
     tool |-> IF s.tool = Undef THEN Str("") ELSE s.tool,
     inputsTemplate |-> OrEmpty(s.inputs)]

ProcedureVersion(version, createdAt, createdBy, source, steps) ==
    [version |-> version, createdAt |-> createdAt, createdBy |-> createdBy,
     source |-> source, steps |-> steps]

ProcedureRecord(activeVersion, versions) ==
    [taskKey |-> "orders.export", userId |-> "u1", scope |-> "user",
     activeVersion |-> activeVersion, versions |-> versions]

\* the version a record got at its n-th teaching
EarlierVersion(n) ==
    ProcedureVersion(n, "earlier", "u1", IF n = 1 THEN "taught" ELSE "corrected",
                     <<StepTemplate(StepTrace("s1", Str("web.navigate"), Object(<<<<"a", n>>>>), 1))>>)

\* records as buildProcedureFromExecution and addVersionFromExecution leave
\* them, and one whose activeVersion the store holds behind its versions
RecordInputs ==
    {ProcedureRecord(n, [k \in 1..n |-> EarlierVersion(k)]) : n \in 1..MaxVersions}
    \cup {ProcedureRecord(1, [k \in 1..MaxVersions |-> EarlierVersion(k)])}

\* what a call leaves: the record returned and the record passed in
Versioned(returned, existing) == [returned |-> returned, existing |-> existing]

\* a variant that pushes the new version onto the record it was given
addVersionInPlace(existing, trace, createdBy, source) ==
    LET nextVersion == existing.activeVersion + 1
        steps == [i \in 1..Len(trace.steps) |-> StepTemplate(trace.steps[i])]
        newVersion == ProcedureVersion(nextVersion, "now", createdBy, source, steps)
        updated == [existing EXCEPT !.activeVersion = nextVersion,
                                    !.versions = Append(@, newVersion)]
    IN Versioned(updated, updated)

\* a variant that appends the new version and leaves activeVersion behind
addVersionKeepingActive(existing, trace, createdBy, source) ==
    LET nextVersion == existing.activeVersion + 1
        steps == [i \in 1..Len(trace.steps) |-> StepTemplate(trace.steps[i])]
        newVersion == ProcedureVersion(nextVersion, "now", createdBy, source, steps)
    IN Versioned([existing EXCEPT !.versions = existing.versions \o <<newVersion>>],
                 existing)

addVersionFromExecution(existing, trace, createdBy, source) ==
    LET nextVersion == existing.activeVersion + 1
        steps == [i \in 1..Len(trace.steps) |-> StepTemplate(trace.steps[i])]
        newVersion == ProcedureVersion(nextVersion, "now", createdBy, source, steps)
    IN Versioned([existing EXCEPT !.activeVersion = nextVersion,
                                  !.versions = existing.versions \o <<newVersion>>],
                 existing)

PatchCall(agentTrace, userTrace) ==
    [fn |-> "computeCorrectionPatch", agentTrace |-> agentTrace, userTrace |-> userTrace,
     existing |-> ProcedureRecord(0, <<>>)]
VersionCall(existing, trace) ==
    [fn |-> "addVersionFromExecution", agentTrace |-> ExecutionTrace(<<>>), userTrace |-> trace,
     existing |-> existing]

NoPatch == [taskKey |-> "", userId |-> "", changes |-> <<>>]
NotYet ==
    [state |-> "notCalled", patch |-> NoPatch,
     versioned |-> Versioned(ProcedureRecord(0, <<>>), ProcedureRecord(0, <<>>))]

InitMemory ==
    /\ memoryCall \in {PatchCall(a, u) : a, u \in TraceInputs}
                        \cup {VersionCall(r, t) : r \in RecordInputs, t \in TraceInputs}
    /\ memoryReturn = NotYet

CallComputeCorrectionPatch ==
    /\ memoryCall.fn = "computeCorrectionPatch"
    /\ memoryReturn = NotYet
    /\ memoryReturn' = [NotYet EXCEPT
                          !.state = "returned",
                          !.patch = computeCorrectionPatch(memoryCall.agentTrace, memoryCall.userTrace)]
    /\ UNCHANGED memoryCall
    /\ UNCHANGED <<orchVars, clientVars, credVars, taskVars, mockVars, compileVars, storeVars, pollVars>>

CallAddVersionFromExecution ==
    /\ memoryCall.fn = "addVersionFromExecution"
    /\ memoryReturn = NotYet
    /\ memoryReturn' = [NotYet EXCEPT
                          !.state = "returned",
                          !.versioned = addVersionFromExecution(memoryCall.existing, memoryCall.userTrace,
                                                                "u1", "corrected")]
    /\ UNCHANGED memoryCall
    /\ UNCHANGED <<orchVars, clientVars, credVars, taskVars, mockVars, compileVars, storeVars, pollVars>>

NextMemory ==
    \/ CallComputeCorrectionPatch
    \/ CallAddVersionFromExecution

(***************************************************************************)
(* proceduralMemory over a MemoryCore: invocations of                      *)
(* upsertProcedureFromCorrection and calls of loadProcedure on one store.  *)
(* getItem and writeItem of InMemoryMemoryCore (and of the sqlite cores)   *)
(* read and write when they are called; an invocation yields at each       *)
(* await, so another may run between its load and its save.                *)
(***************************************************************************)
\* how many invocations of upsertProcedureFromCorrection are made
MaxUpserts == 3

Invocations == 1..MaxUpserts
UserIds == {"u1", "u2"}
TaskScopes == {"user", "project", "global"}
TaskKey == "orders.export"

buildMemoryKey(taskKey, scope, userId) ==
    CASE scope = "user" -> "procedural." \o userId \o "." \o taskKey
      [] scope = "project" -> "procedural.project." \o taskKey
      [] scope = "global" -> "procedural.global." \o taskKey

MemoryKeys == {buildMemoryKey(TaskKey, scope, userId) : scope \in TaskScopes, userId \in UserIds}

\* getItem's null, and an item with a record as its data
NoItem == [present |-> FALSE, data |-> ProcedureRecord(0, <<>>)]
Item(record) == [present |-> TRUE, data |-> record]

\* this.ensureUserMap(userId).get(key) ?? null
getItem(store, userId, key) == store[userId][key]

\* this.ensureUserMap(userId).set(item.key, item)
writeItem(store, userId, key, item) == [store EXCEPT ![userId][key] = item]

\* what loadProcedure resolves to: NoItem stands for null
loadProcedure(store, userId, taskKey, scope) ==
    getItem(store, userId, buildMemoryKey(taskKey, scope, userId))

\* the store saveProcedure leaves
saveProcedure(store, record) ==
    writeItem(store, record.userId,
              buildMemoryKey(record.taskKey, record.scope, record.userId), Item(record))

buildProcedureFromExecution(trace, createdBy, scope) ==
    [taskKey |-> trace.taskKey, userId |-> trace.userId, scope |-> scope,
     activeVersion |-> 1,
     versions |-> <<ProcedureVersion(1, "now", createdBy, "taught",
                        [i \in 1..Len(trace.steps) |-> StepTemplate(trace.steps[i])])>>]

\* the corrected trace handed to the p-th invocation, by the user userId
CorrectedTrace(p, userId) ==
    [ExecutionTrace(<<StepTrace("s1", Str("web.navigate"), Object(<<<<"a", p>>>>), 1)>>)
        EXCEPT !.userId = userId]

\* a variant of the upsert that always builds a fresh record
UpsertedAlwaysFresh(existing, trace, scope) ==
    buildProcedureFromExecution(trace, trace.userId, scope)
\* const created / const updated of upsertProcedureFromCorrection
Upserted(existing, trace, scope) ==
    IF ~existing.present
    THEN buildProcedureFromExecution(trace, trace.userId, scope)
    ELSE addVersionFromExecution(existing.data, trace, trace.userId, "corrected").returned

\* a variant of the save that loads the record again when it persists
BasisReloaded(store, existing, trace, scope) ==
    loadProcedure(store, trace.userId, trace.taskKey, scope)
\* the record an invocation extends when it persists: the one it loaded
Basis(store, existing, trace, scope) == existing

NotInvoked ==
    [state |-> "notCalled", trace |-> ExecutionTrace(<<>>), scope |-> "user",
     existing |-> NoItem, returned |-> ProcedureRecord(0, <<>>), concurrent |-> {}]

\* the item an invocation reads and writes
SlotOf(u) == <<u.trace.userId, buildMemoryKey(u.trace.taskKey, u.scope, u.trace.userId)>>

NotLoaded == [userId |-> "", scope |-> "", result |-> NoItem]

InitStore ==
    /\ memoryItems = [userId \in UserIds |-> [key \in MemoryKeys |-> NoItem]]
    /\ upserts = [p \in Invocations |-> NotInvoked]
    /\ lastLoad = NotLoaded

\* upsertProcedureFromCorrection is called and runs to the await of getItem
UpsertLoads(p, userId, scope) ==
    /\ upserts[p].state = "notCalled"
    /\ p > 1 => upserts[p - 1].state # "notCalled"
    /\ LET trace == CorrectedTrace(p, userId)
       IN upserts' = [upserts EXCEPT ![p] =
              [state |-> "loaded", trace |-> trace, scope |-> scope,
               existing |-> loadProcedure(memoryItems, trace.userId, trace.taskKey, scope),
               returned |-> ProcedureRecord(0, <<>>),
               concurrent |-> {q \in Invocations :
                                 /\ upserts[q].state = "loaded"
                                 /\ SlotOf(upserts[q]) = <<userId, buildMemoryKey(TaskKey, scope, userId)>>}]]
    /\ UNCHANGED <<memoryItems, lastLoad>>
    /\ UNCHANGED <<orchVars, clientVars, credVars, taskVars, mockVars, compileVars, memoryVars, pollVars>>

\* the invocation resumes with what it loaded, persists and returns
UpsertSaves(p) ==
    /\ upserts[p].state = "loaded"
    /\ LET u == upserts[p]
           record == Upserted(Basis(memoryItems, u.existing, u.trace, u.scope), u.trace, u.scope)
       IN /\ memoryItems' = saveProcedure(memoryItems, record)
          /\ upserts' = [upserts EXCEPT ![p].state = "returned", ![p].returned = record]
    /\ UNCHANGED lastLoad
    /\ UNCHANGED <<orchVars, clientVars, credVars, taskVars, mockVars, compileVars, memoryVars, pollVars>>

\* a call of loadProcedure by userId, once some invocation has persisted and
\* while none is between its load and its save (the store is then as it was
\* before that load)
LoadProcedure(userId, scope) ==
    /\ \E p \in Invocations : upserts[p].state = "returned"
    /\ \A p \in Invocations : upserts[p].state # "loaded"
    /\ lastLoad' = [userId |-> userId, scope |-> scope,
                    result |-> loadProcedure(memoryItems, userId, TaskKey, scope)]
    /\ UNCHANGED <<memoryItems, upserts>>
    /\ UNCHANGED <<orchVars, clientVars, credVars, taskVars, mockVars, compileVars, memoryVars, pollVars>>

NextStore ==
    \/ \E p \in Invocations, userId \in UserIds, scope \in TaskScopes : UpsertLoads(p, userId, scope)
    \/ \E p \in Invocations : UpsertSaves(p)
    \/ \E userId \in UserIds, scope \in TaskScopes : LoadProcedure(userId, scope)

(***************************************************************************)
(* Specifications: one per component, the other component at rest.         *)
(***************************************************************************)
ClientAtRest ==
    /\ maxRetries = DefaultMaxRetries
    /\ backend = 0
    /\ answers = <<>>
    /\ classified = "notAsked"
    /\ cpc = "rest"
    /\ attempt = 0
    /\ lastError = NoFailure
    /\ httpAttempts = 0
    /\ delays = <<>>
    /\ coutcome = CPending

OrchestratorAtRest ==
    /\ env = Unset
    /\ request = [executionMode |-> "absent", dslJson |-> AbsentJson, dslText |-> AbsentText,
                  targets |-> Absent, instructions |-> Absent]
    /\ pc = "rest"
    /\ preferAegis = FALSE
    /\ commands = [kind |-> "undefined", items |-> <<>>]
    /\ calls = <<>>
    /\ remote = NoResult
    /\ local = NoResult
    /\ outcome = Pending

CredentialsAtRest ==
    /\ bearerToken = Undef
    /\ apiKey = Undef
    /\ sent = <<>>

RunTaskAtRest ==
    /\ maxLogicalRetries = DefaultMaxLogicalRetries
    /\ rtRequest = TaskRequest("absent", AbsentJson, AbsentText, Absent, Absent, NoOptions)
    /\ rtOriginal = rtRequest
    /\ rtOptions = [workflowTimeoutMs |-> Undef, complexityHint |-> Undef]
    /\ rtpc = "rest"
    /\ rtAttempt = 0
    /\ rtLastError = NoLastError
    /\ rtTimeoutMs = 0
    /\ expired = FALSE
    /\ finalTask = "none"
    /\ backendCalls = <<>>
    /\ rtResult = NotReturned

MockAtRest ==
    /\ mock = "rest"
    /\ tasks = [id \in TaskIds |-> "absent"]
    /\ results = [id \in TaskIds |-> "none"]
    /\ timers = [id \in TaskIds |-> {}]
    /\ shouldFail = [id \in TaskIds |-> FALSE]
    /\ sawTerminal = [id \in TaskIds |-> FALSE]
    /\ replied = NoReply

CompileAtRest ==
    /\ compileInput = [form |-> "rest", json |-> AbsentJson, lines |-> <<>>]
    /\ compileOutput = NotCalled

MemoryAtRest ==
    /\ memoryCall = [fn |-> "rest", agentTrace |-> ExecutionTrace(<<>>),
                     userTrace |-> ExecutionTrace(<<>>), existing |-> ProcedureRecord(0, <<>>)]
    /\ memoryReturn = NotYet

StoreAtRest ==
    /\ memoryItems = [userId \in UserIds |-> [key \in MemoryKeys |-> NoItem]]
    /\ upserts = [p \in Invocations |-> [NotInvoked EXCEPT !.state = "rest"]]
    /\ lastLoad = NotLoaded

PollAtRest ==
    /\ now = 0
    /\ start = -1
    /\ polledSince = 0
    /\ onBackend = "rest"

OrchestratorStarts == InitOrchestrator /\ ClientAtRest /\ CredentialsAtRest /\ RunTaskAtRest /\ MockAtRest /\ CompileAtRest /\ MemoryAtRest /\ StoreAtRest /\ PollAtRest

ClientStarts == InitClient /\ OrchestratorAtRest /\ CredentialsAtRest /\ RunTaskAtRest /\ MockAtRest /\ CompileAtRest /\ MemoryAtRest /\ StoreAtRest /\ PollAtRest

CredentialsStart == InitCredentials /\ OrchestratorAtRest /\ ClientAtRest /\ RunTaskAtRest /\ MockAtRest /\ CompileAtRest /\ MemoryAtRest /\ StoreAtRest /\ PollAtRest

RunTaskStarts == InitRunTask /\ OrchestratorAtRest /\ ClientAtRest /\ CredentialsAtRest /\ MockAtRest /\ CompileAtRest /\ MemoryAtRest /\ StoreAtRest /\ PollAtRest

MockStarts == InitMock /\ OrchestratorAtRest /\ ClientAtRest /\ CredentialsAtRest /\ RunTaskAtRest /\ CompileAtRest /\ MemoryAtRest /\ StoreAtRest /\ PollAtRest

CompileStarts ==
    InitCompile /\ OrchestratorAtRest /\ ClientAtRest /\ CredentialsAtRest /\ RunTaskAtRest /\ MockAtRest
        /\ MemoryAtRest /\ StoreAtRest /\ PollAtRest

MemoryStarts ==
    InitMemory /\ OrchestratorAtRest /\ ClientAtRest /\ CredentialsAtRest /\ RunTaskAtRest /\ MockAtRest
        /\ CompileAtRest /\ StoreAtRest /\ PollAtRest

StoreStarts ==
    InitStore /\ OrchestratorAtRest /\ ClientAtRest /\ CredentialsAtRest /\ RunTaskAtRest /\ MockAtRest
        /\ CompileAtRest /\ MemoryAtRest /\ PollAtRest

SpecOrchestrator == OrchestratorStarts /\ [][NextOrchestrator]_vars

SpecClient == ClientStarts /\ [][NextClient]_vars

SpecCredentials == CredentialsStart /\ [][NextCredentials]_vars

SpecRunTask == RunTaskStarts /\ [][NextRunTask]_vars

SpecMock == MockStarts /\ [][NextMock]_vars

SpecCompile == CompileStarts /\ [][NextCompile]_vars

SpecMemory == MemoryStarts /\ [][NextMemory]_vars

SpecStore == StoreStarts /\ [][NextStore]_vars

\* every pending continuation of request runs: the response or the error of an
\* attempt arrives (axios bounds each attempt by its timeout) and timers fire
FairSpecClient == SpecClient /\ WF_vars(NextClient)

RemoteRunStarts ==
    InitFollowed /\ InitTransport /\ OrchestratorAtRest /\ CredentialsAtRest /\ MockAtRest
        /\ CompileAtRest /\ MemoryAtRest /\ StoreAtRest /\ PollAtRest

SpecRemoteRun == RemoteRunStarts /\ [][NextRemoteRun]_vars

RunTaskEventsStart ==
    InitFollowed /\ ClientAtRest /\ OrchestratorAtRest /\ CredentialsAtRest /\ MockAtRest
        /\ CompileAtRest /\ MemoryAtRest /\ StoreAtRest /\ PollAtRest

PolledRunStarts ==
    InitFollowed /\ InitPolling /\ ClientAtRest /\ OrchestratorAtRest /\ CredentialsAtRest
        /\ MockAtRest /\ CompileAtRest /\ MemoryAtRest /\ StoreAtRest

SpecPolling == PolledRunStarts /\ [][NextPolling]_vars

SpecRunTaskEvents == RunTaskEventsStart /\ [][NextRunTaskEvents]_vars

\* every call awaited settles and every timer fires
FairSpecRunTaskEvents == SpecRunTaskEvents /\ WF_vars(NextRunTaskEvents)

(***************************************************************************)
(* Properties of Orchestrator.run (SpecOrchestrator).                      *)
(***************************************************************************)
Count(seq, x) == Cardinality({i \in 1..Len(seq) : seq[i] = x})

TargetCount == IF request.targets.present THEN request.targets.length ELSE 0
InstructionLength == IF request.instructions.present THEN request.instructions.length ELSE 0

EnvForcesRemote == env.set /\ env.value \in {"true", "TRUE", "1"}
EnvForcesLocal == env.set /\ env.value \in {"false", "False", "0"}

\* the request carries neither a structured list nor a text
NoScript == request.dslJson.kind = "absent"
            /\ (request.dslText.kind = "absent" \/ request.dslText.lines = <<>>)

\* C1: run invokes the backends (runDsl and runTask together) at most twice
\* for a request, whatever the backends answer.
C1_AtMostTwoBackendCalls == Len(calls) <= 2

C1_Witness == pc = "done" /\ Len(calls) = 2

LocalPreferredWithCommands == pc # "start" /\ ~preferAegis /\ commands.kind = "commands"

\* C2: local preferred and a command sequence exists: the local driver is
\* called first and only once; after a failed or timeout result or a thrown
\* fault the remote backend is invoked exactly once and its result is what run
\* returns; after any other local result the remote backend is not invoked.
C2_LocalFirstThenRemoteOnce ==
    LocalPreferredWithCommands =>
        /\ calls # <<>>
        /\ calls[1] = "local"
        /\ Count(calls, "local") = 1
        /\ pc = "done" =>
              IF local.status \in {"failed", "timeout", "threw"}
              THEN /\ Count(calls, "remote") = 1
                   /\ remote.from = "remote"
                   /\ outcome = Returned(remote)
              ELSE Count(calls, "remote") = 0

C2_Witness ==
    /\ pc = "done"
    /\ LocalPreferredWithCommands
    /\ local = LocalFault
    /\ calls = <<"local", "remote">>
    /\ outcome = Returned(remote)

\* C3: remote preferred: run calls the local driver once and returns the local
\* result exactly when the remote status is failed or timeout and a command
\* sequence exists; otherwise it returns the remote result and never calls the
\* local driver.
C3_RemoteFallsBackIff ==
    (pc = "done" /\ preferAegis /\ commands.kind # "threw") =>
        LET fallsBack == remote.status \in {"failed", "timeout"} /\ commands.kind = "commands"
        IN /\ (Count(calls, "local") = 1 /\ local.from = "local" /\ outcome = Returned(local))
                <=> fallsBack
           /\ ~fallsBack => (Count(calls, "local") = 0 /\ outcome = Returned(remote))

\* C4: a request without script runs on the remote backend exactly once and
\* never on the local driver, whichever path is preferred.
C4_NoScriptRunsRemoteOnce ==
    (NoScript /\ pc # "start") =>
        /\ calls = <<"remote">>
        /\ pc = "done" => outcome = Returned(remote)

C4_Witness == pc = "done" /\ NoScript /\ ~preferAegis /\ calls = <<"remote">>

\* C5: run never raises: it always completes by returning a normalized result.
C5_RunNeverRaises ==
    pc = "done" => (outcome.kind = "returned" /\ outcome.value.status \in NormalizedStatus)

\* C6: precedence of the preference function: env true/1 gives remote unless
\* the mode is simple; env false/0 gives local unless the mode is complex; with
\* any other or no env value, simple gives local and complex gives remote.
C6_PreferencePrecedence ==
    pc # "start" =>
        /\ EnvForcesRemote => (preferAegis <=> request.executionMode # "simple")
        /\ EnvForcesLocal => (preferAegis <=> request.executionMode = "complex")
        /\ (~EnvForcesRemote /\ ~EnvForcesLocal /\ request.executionMode = "simple")
              => ~preferAegis
        /\ (~EnvForcesRemote /\ ~EnvForcesLocal /\ request.executionMode = "complex")
              => preferAegis

C6_Witness ==
    /\ pc = "done"
    /\ env = EnvSet("TRUE")
    /\ request.executionMode = "simple"
    /\ TargetCount > 3
    /\ ~preferAegis

\* C7: without env force-flag and mode override, remote is preferred exactly
\* when the script compiles to more than 5 commands (structured list or text),
\* or there are more than 3 targets, or the instructions exceed 500 characters.
C7_HeuristicsCountCompiledCommands ==
    (/\ pc # "start"
     /\ ~EnvForcesRemote /\ ~EnvForcesLocal
     /\ request.executionMode \in {"absent", "auto"}
     /\ commands.kind # "threw") =>
        (preferAegis <=>
            (Len(commands.items) > 5 \/ TargetCount > 3 \/ InstructionLength > 500))

(***************************************************************************)
(* Properties of AegisClient.request (SpecClient, FairSpecClient).         *)
(***************************************************************************)
\* the classification the transport layer is to make
NoResponse(e) == e.isAxios /\ e.status = 0
ConnectionTimeout(e) == e.isAxios /\ (e.code \in {"ECONNABORTED", "ETIMEDOUT"} \/ e.timeoutMessage)
ServerErrorOr429(e) == e.isAxios /\ ((e.status >= 500 /\ e.status <= 599) \/ e.status = 429)
Retriable(e) == NoResponse(e) \/ ConnectionTimeout(e) \/ ServerErrorOr429(e)

\* every answer so far was a retriable failure
OnlyRetriableFailures ==
    \A i \in 1..Len(answers) : ~answers[i].ok /\ Retriable(answers[i].error)

\* every failure so far was retriable
FailuresRetriable ==
    \A i \in 1..Len(answers) : ~answers[i].ok => Retriable(answers[i].error)

\* C8: a backend that answers k <= maxRetries retriable failures and then a
\* success: request resolves after exactly k + 1 HTTP attempts.
C8_ResolvesAfterRetriableFailures ==
    (cpc = "done" /\ backend <= maxRetries /\ FailuresRetriable) =>
        /\ coutcome = CResolved
        /\ httpAttempts = backend + 1
        /\ Len(answers) = backend + 1
        /\ answers[Len(answers)].ok

C8_Witness ==
    /\ cpc = "done"
    /\ maxRetries = 3
    /\ backend = 2
    /\ Len(answers) = 3
    /\ answers[1].error.status = 503
    /\ answers[2].error.status = 503
    /\ coutcome = CResolved
    /\ httpAttempts = 3

C9_RetryLoopBounded ==
    LET n == Len(answers)
    IN /\ httpAttempts <= maxRetries + 1
       /\ (OnlyRetriableFailures /\ n <= maxRetries) =>
             (coutcome = CPending /\ Len(delays) = n)
       /\ (OnlyRetriableFailures /\ n = maxRetries + 1) =>
             /\ cpc = "done"
             /\ coutcome = CRejected(answers[n].error)
             /\ httpAttempts = maxRetries + 1
             /\ Len(delays) = maxRetries
       /\ (n > 0 /\ ~answers[n].ok /\ ~Retriable(answers[n].error)) =>
             /\ cpc = "done"
             /\ coutcome = CRejected(answers[n].error)
             /\ httpAttempts = n
             /\ Len(delays) = n - 1

\* C9: the retry loop always ends: with only retriable failures it makes
\* exactly maxRetries + 1 attempts and re-raises the last error; a
\* non-retriable failure is re-raised at once, without delay or further attempt.
C9_RetryLoopTerminates == []C9_RetryLoopBounded /\ <>(cpc = "done")

C9_Witness ==
    /\ cpc = "done"
    /\ maxRetries = 2
    /\ OnlyRetriableFailures
    /\ httpAttempts = 3
    /\ coutcome = CRejected(answers[3].error)

\* C10: a failed call is classified retriable exactly when it is a failure
\* without response, a connection timeout, or a 5xx or 429 response; every
\* other 4xx response is non-retriable.
C10_RetriableClassification ==
    classified # "notAsked" =>
        /\ (classified = "retriable") <=> Retriable(lastError)
        /\ (lastError.status >= 400 /\ lastError.status <= 499 /\ lastError.status # 429)
              => classified = "nonRetriable"

C10_Witness == classified = "retriable" /\ lastError.status = 429

\* C11: the delay slept after the n-th failed attempt is
\* baseDelay * 2^(n-1) + jitter with 0 <= jitter < 100: with the base of 500
\* the delays lie in [500,600), [1000,1100), [2000,2100), ... and each delay
\* is strictly larger than the one before it.
C11_BackoffDoublesWithJitter ==
    /\ Len(delays) <= maxRetries
    /\ \A n \in 1..Len(delays) :
          /\ delays[n] >= 500 * (2 ^ (n - 1))
          /\ delays[n] < 500 * (2 ^ (n - 1)) + 100
          /\ n = 1 => delays[n] \in 500..599
          /\ n = 2 => delays[n] \in 1000..1099
          /\ n = 3 => delays[n] \in 2000..2099
          /\ n > 1 => delays[n] > delays[n - 1]

\* three failed attempts were each followed by a delay, with the jitter at
\* either end of its range
C11_Witness ==
    /\ Len(delays) = 3
    /\ delays[1] = 599
    /\ delays[2] = 1000
    /\ delays[3] = 2099

(***************************************************************************)
(* Properties of the calls AegisClient sends (SpecCredentials).            *)
(***************************************************************************)
HasBearer(call) == call.headers.Authorization # Undef
HasApiKey(call) == call.headers.xApiKey # Undef

\* C12: every outbound call carries exactly one credential header: the bearer
\* Authorization header when a bearer token is configured (also when an API key
\* is configured too), otherwise the x-api-key header; no call carries both
\* and no call goes out without a credential.
C12_ExactlyOneCredential ==
    \A i \in 1..Len(sent) :
        /\ HasBearer(sent[i]) # HasApiKey(sent[i])
        /\ IF Truthy(bearerToken)
           THEN sent[i].headers.Authorization = Str("Bearer " \o bearerToken[2])
           ELSE HasApiKey(sent[i])

(***************************************************************************)
(* Properties of AegisRemoteAutomation.runTask (SpecRunTask).              *)
(***************************************************************************)
\* the script of the request as the caller built it does not compile
ScriptInvalid == ensureDslCommands(rtOriginal).kind = "threw"

LastCall == backendCalls[Len(backendCalls)]
CallsOf(task) == {i \in 1..Len(backendCalls) : backendCalls[i].task = task}
FetchesOf(task) == {i \in CallsOf(task) : backendCalls[i].op = "getTaskResult"}
PollsOf(task) == {i \in CallsOf(task) : backendCalls[i].op = "getTask"}
CreatesOf(task) == {i \in CallsOf(task) : backendCalls[i].op = "createTask"}

\* C13: when the embedded script fails compilation, runTask returns status
\* failed with a non-retriable error and makes no backend call at all.
C13_InvalidScriptFailsWithoutBackendCall ==
    ScriptInvalid =>
        /\ backendCalls = <<>>
        /\ rtpc = "done" => /\ rtResult.status = "failed"
                            /\ rtResult.retriable = Bool(FALSE)

\* runTask has returned for a request whose script does not compile
C13_Witness ==
    /\ ScriptInvalid
    /\ rtpc = "done"
    /\ rtResult.code = Str("INVALID_DSL")

\* C14: when the poller finds the workflow timeout budget exceeded, runTask
\* returns status timeout with a non-retriable error; nothing is retried (no
\* further task is created and no call follows, logical attempts remaining or
\* not) and the result of the timed-out task is never fetched.
C14_WorkflowTimeoutIsFinal ==
    rtLastError = TaskTimeout =>
        /\ rtpc = "done"
        /\ rtResult.status = "timeout"
        /\ rtResult.retriable = Bool(FALSE)
        /\ LastCall.op = "getTask"
        /\ LastCall.outcome = "running"
        /\ LastCall.task = Created(backendCalls)
        /\ FetchesOf(Created(backendCalls)) = {}

\* the budget ran out on the second task of a runTask that had an attempt left
C14_Witness ==
    /\ rtLastError = TaskTimeout
    /\ rtpc = "done"
    /\ Created(backendCalls) = 2
    /\ rtAttempt < maxLogicalRetries

\* the step in which getTaskResult resolves
ResultFetched ==
    /\ rtpc = "awaitResult"
    /\ backendCalls'[Len(backendCalls)].outcome = "resolved"

NonRetriableRejection ==
    /\ rtLastError.kind = "client"
    /\ rtLastError.error.status \in 400..499
    /\ ~isRetriableError(rtLastError.error)

\* C16: a non-retriable HTTP 4xx response to a call made during runTask is
\* surfaced at once: runTask returns a failed result, creating no other task
\* and starting no other logical attempt.
C16_NonRetriableRejectionSurfacesAtOnce ==
    NonRetriableRejection =>
        /\ rtpc = "done"
        /\ rtResult.status = "failed"
        /\ LastCall.outcome = "rejected"

\* C17: the backend calls made for each task are strictly ordered: the create
\* completes before the first status poll, at least one poll precedes the
\* result fetch, the result is fetched exactly once and only after a poll has
\* observed a terminal status, and no status poll follows that observation.
C17_CallsOfATaskAreOrdered ==
    \A task \in 1..Created(backendCalls) :
        LET creates == CreatesOf(task)
            polls == PollsOf(task)
            fetches == FetchesOf(task)
            terminal == {i \in polls : backendCalls[i].outcome = "terminal"}
        IN /\ Cardinality(creates) = 1
           /\ \A c \in creates : \A i \in polls \cup fetches :
                 c < i /\ backendCalls[c].outcome = "resolved"
           /\ Cardinality(fetches) <= 1
           /\ \A f \in fetches : \E i \in terminal : i < f
           /\ \A t \in terminal :
                 /\ \A i \in polls : i <= t
                 /\ \E f \in fetches : f = t + 1
           /\ \A i \in 1..Len(backendCalls) :
                 backendCalls[i].outcome = "inFlight" => i = Len(backendCalls)

\* a task was created, polled while running, polled again to a terminal
\* status and its result fetched, after an earlier task went the same way
C17_Witness ==
    /\ Len(backendCalls) = 8
    /\ \A i \in {1, 5} : backendCalls[i].op = "createTask"
    /\ \A i \in {2, 6} : backendCalls[i].op = "getTask" /\ backendCalls[i].outcome = "running"
    /\ \A i \in {3, 7} : backendCalls[i].op = "getTask" /\ backendCalls[i].outcome = "terminal"
    /\ \A i \in {4, 8} :
          backendCalls[i].op = "getTaskResult" /\ backendCalls[i].outcome = "resolved"

\* C18: every result runTask returns after it created at least one task
\* carries debug.attempts equal to the number of logical attempts made (one per
\* task created), on every outcome, timeout included.
C18_AttemptsReported ==
    rtpc = "done" /\ Created(backendCalls) >= 1 =>
        rtResult.attempts = Num(Created(backendCalls))

\* the budget the request gets without override: the orchestrator's own
\* classification of the request as its caller built it
OrchestratorBudget ==
    IF shouldPreferAegis(rtOriginal, Unset) THEN DefaultWorkflowTimeoutMsComplex
    ELSE DefaultWorkflowTimeoutMsSimple

CarriesMaxDuration == Truthy(rtOriginal.options.maxDurationMs)

\* C19 as stated: every task is created with options.maxDurationMs equal to
\* the budget it is polled with, also for a request that carries its own
\* maxDurationMs, on every logical attempt.
C19_MaxDurationIsBudget ==
    \A i \in 1..Len(backendCalls) :
        backendCalls[i].op = "createTask" =>
            /\ backendCalls[i].maxDurationMs = backendCalls[i].budget
            /\ backendCalls[i].budget = Num(rtTimeoutMs)

\* C19, amended: every task is created with options.maxDurationMs set, on
\* every logical attempt: to the request's own maxDurationMs when it carries
\* one (other than 0), and otherwise to the budget the task is polled with.
C19_MaxDurationIsBudgetUnlessCarried ==
    \A i \in 1..Len(backendCalls) :
        backendCalls[i].op = "createTask" =>
            /\ backendCalls[i].budget = Num(rtTimeoutMs)
            /\ backendCalls[i].maxDurationMs =
                  (IF CarriesMaxDuration THEN rtOriginal.options.maxDurationMs
                   ELSE backendCalls[i].budget)

\* the second task of a request without maxDurationMs of its own is created
\* with the budget
C19_Witness ==
    /\ Created(backendCalls) = 2
    /\ ~CarriesMaxDuration
    /\ LastCall.op = "createTask"
    /\ LastCall.maxDurationMs = Num(DefaultWorkflowTimeoutMsComplex)

\* C20: the budget is the explicit override when one is given; otherwise the
\* complex default exactly when the heuristic the orchestrator uses classifies
\* the request as complex (mode complex, or, the mode left open, more than 5
\* commands, more than 3 targets or more than 500 characters of instructions)
\* and the simple default otherwise. Stated for the calls that pass no
\* complexityHint, as the calls of the orchestrator do.
C20_BudgetFollowsOrchestratorHeuristic ==
    rtOptions.complexityHint = Undef =>
        \A i \in 1..Len(backendCalls) :
            backendCalls[i].op = "createTask" =>
                backendCalls[i].budget =
                    (IF rtOptions.workflowTimeoutMs # Undef THEN rtOptions.workflowTimeoutMs
                     ELSE Num(OrchestratorBudget))

(***************************************************************************)
(* The mock task backends.                                                 *)
(***************************************************************************)
\* how far a task has come: created, started, ended
Progress(status) ==
    CASE status = "absent" -> 0
      [] status = "queued" -> 1
      [] status = "running" -> 2
      [] OTHER -> 3

\* C21: in both mock backends the status of a task only moves forward, whatever
\* the order in which its two timers fire and clients cancel it: a task that is
\* completed, failed, cancelled or timeout keeps that status for good, and a
\* running task never returns to queued.
C21_StatusIsMonotonic ==
    [][\A id \in TaskIds :
          /\ tasks[id] \in TerminalStatus => tasks'[id] = tasks[id]
          /\ tasks[id] = "running" => tasks'[id] # "queued"
          /\ Progress(tasks'[id]) >= Progress(tasks[id])]_vars

\* a task was cancelled and then both of its timers fired
C21_Witness ==
    \E id \in TaskIds : tasks[id] = "cancelled" /\ timers[id] = {}

\* C22: in the mock task server, cancelling a queued or running task sets its
\* status to cancelled and stores a cancelled result; cancelling a task that is
\* already terminal is refused with 409 and leaves every task and every stored
\* result as it was.
C22_CancelActsOnlyOnLiveTasks ==
    [][\A id \in TaskIds : ServerCancel(id) =>
          /\ tasks[id] \in {"queued", "running"} =>
                /\ tasks'[id] = "cancelled"
                /\ results'[id] = "cancelled"
                /\ replied' = Reply("cancel", id, 200, "cancelled")
          /\ tasks[id] \in TerminalStatus =>
                /\ replied'.code = 409
                /\ tasks' = tasks
                /\ results' = results]_vars

\* one task was cancelled while live, and the cancel of a completed one was refused
C22_Witness ==
    /\ mock = "server"
    /\ \E id, other \in TaskIds :
          /\ tasks[id] = "cancelled" /\ results[id] = "cancelled"
          /\ tasks[other] = "completed" /\ results[other] = "completed"
          /\ replied = Reply("cancel", other, 409, "completed")

\* C23: in every reachable state of the mock task server a task has a stored
\* result exactly when its status is terminal; the result endpoint answers
\* with the status the task has at that moment, whether it serves the stored
\* result or the shell; and a client that was sent a terminal status of a task
\* is never sent a non-terminal status by a later fetch of its result.
C23_ResultAgreesWithStatus ==
    /\ [](mock = "server" =>
            \A id \in TaskIds :
               /\ results[id] # "none" <=> tasks[id] \in TerminalStatus
               /\ results[id] # "none" => results[id] = tasks[id])
    /\ [][\A id \in TaskIds : ServerGetResult(id) /\ tasks[id] # "absent" =>
             /\ replied'.code = 200
             /\ replied'.status = tasks'[id]
             /\ sawTerminal[id] => replied'.status \in TerminalStatus]_vars

\* a client was sent a terminal status of a task and then fetched its result,
\* while another task was still running
C23_Witness ==
    /\ mock = "server"
    /\ \E id, other \in TaskIds :
          /\ sawTerminal[id]
          /\ replied = Reply("result", id, 200, tasks[id])
          /\ tasks[other] = "running"

(***************************************************************************)
(* The compilers.                                                          *)
(***************************************************************************)
NonEmptyString(v) == IsString(v) /\ v # Str("")

\* an element of a structured list with all that its kind requires: an object
\* with a string kind among the six and object args; goto with a non-empty url,
\* click and waitForSelector with a non-empty selector, fill with a selector
\* and a string value, extract with a selector and an as
WellFormed(raw) ==
    /\ raw.isObject
    /\ IsString(raw.type)
    /\ raw.argsIsObject
    /\ raw.type[2] \in DSLCommandType
    /\ CASE raw.type[2] = "goto" -> NonEmptyString(raw.args.url)
         [] raw.type[2] \in {"click", "waitForSelector"} -> NonEmptyString(raw.args.selector)
         [] raw.type[2] = "fill" ->
              NonEmptyString(raw.args.selector) /\ IsString(raw.args.value)
         [] raw.type[2] = "extract" ->
              NonEmptyString(raw.args.selector) /\ NonEmptyString(raw.args.as)
         [] OTHER -> TRUE

WellFormedList(json) ==
    json.kind = "array" /\ \A i \in 1..Len(json.items) : WellFormed(json.items[i])

StructuredSettled == compileInput.form = "structured" /\ compileOutput.state = "settled"

\* C24: for every well-formed structured command list validateDslJson returns
\* a sequence as long as the list whose i-th element has the kind of the i-th
\* element of the list.
C24_StructuredCompileKeepsKinds ==
    StructuredSettled /\ WellFormedList(compileInput.json) =>
        LET items == compileInput.json.items
            out == compileOutput.result
        IN /\ ~out.threw
           /\ Len(out.commands) = Len(items)
           /\ \A i \in 1..Len(items) : out.commands[i].type = items[i].type[2]

\* a list of two well-formed commands of different kinds was compiled
C24_Witness ==
    /\ compileInput = StructuredInput(ArrayJson(<<GotoOk, ClickOk>>))
    /\ compileOutput.state = "settled"
    /\ ~compileOutput.result.threw

\* C25: validateDslJson is all or nothing: it throws, returning no command,
\* exactly when its input is not a list or some element of the list is not
\* well-formed (not an object with a string kind and object args, of unknown
\* kind, or without a field its kind requires); a goto with empty args makes it
\* throw the error of the missing url.
C25_StructuredCompileAllOrNothing ==
    StructuredSettled =>
        LET items == compileInput.json.items
            out == compileOutput.result
        IN /\ out.threw <=> ~WellFormedList(compileInput.json)
           /\ out.threw => out.commands = <<>>
           /\ ~out.threw => Len(out.commands) = Len(items)
           /\ \A i \in 1..Len(items) :
                 (items[i] = GotoNoUrl /\ \A j \in 1..(i - 1) : WellFormed(items[j])) =>
                     /\ out.threw
                     /\ out.error.message = "requires a url"
                     /\ out.error.index = i - 1

\* a list whose second element is a goto with empty args was refused
C25_Witness ==
    /\ compileInput = StructuredInput(ArrayJson(<<GotoOk, GotoNoUrl>>))
    /\ compileOutput.state = "settled"
    /\ compileOutput.result.threw

TextSettled == compileInput.form = "text" /\ compileOutput.state = "settled"

\* the first tokens parseDslText takes for a command, in lower case
RecognizedCommands ==
    {"goto", "click", "fill", "wait_for_selector", "waitforselector",
     "wait_for_navigation", "waitfornavigation", "extract"}

Unrecognized(line) ==
    line.kind = "code" /\ line.tokens # <<>> /\ toLowerCase(line.tokens[1]) \notin RecognizedCommands

\* C26: when parseDslText fails on a line whose first token is not a command,
\* the error names the number that line has in the text it was given, blank
\* lines and comment lines before it counted.
C26_UnknownCommandNamesSourceLine ==
    (TextSettled /\ compileOutput.result.threw
        /\ compileOutput.result.error.message = "unknown command type") =>
        LET lines == compileInput.lines
        IN compileOutput.result.error.index =
               SetMin({i \in 1..Len(lines) : Unrecognized(lines[i])})

\* a line as it reads without a timeout token that is not a number
WithoutBadTimeout(line) ==
    IF line.kind # "code" \/ line.tokens = <<>> THEN line
    ELSE LET tokens == line.tokens
             type == toLowerCase(tokens[1])
         IN IF type \in {"wait_for_selector", "waitforselector"}
                  /\ Len(tokens) >= 3 /\ Number(tokens[3]) = NaN
            THEN Code(<<tokens[1], tokens[2]>>)
            ELSE IF type \in {"wait_for_navigation", "waitfornavigation"}
                  /\ Len(tokens) >= 2 /\ Number(tokens[2]) = NaN
            THEN Code(<<tokens[1]>>)
            ELSE line

\* C27: a timeout token of waitForSelector or waitForNavigation that is not a
\* number raises no error and leaves the timeout of the command absent:
\* parseDslText gives what it gives for the same text without that token.
C27_BadTimeoutIsAbsent ==
    TextSettled =>
        LET lines == compileInput.lines
        IN compileOutput.result =
               parseDslText([i \in 1..Len(lines) |-> WithoutBadTimeout(lines[i])])

(***************************************************************************)
(* proceduralMemory.                                                       *)
(***************************************************************************)
PatchReturned == memoryCall.fn = "computeCorrectionPatch" /\ memoryReturn.state = "returned"

\* two inputs are equal when they hold the same values under the same keys;
\* inputs that are undefined count as the empty object
EqualInputs(x, y) ==
    {OrEmpty(x).entries[i] : i \in 1..Len(OrEmpty(x).entries)}
        = {OrEmpty(y).entries[i] : i \in 1..Len(OrEmpty(y).entries)}

StepIds(trace) == {trace.steps[i].stepId : i \in 1..Len(trace.steps)}
StepOf(trace, stepId) == CHOOSE st \in {trace.steps[i] : i \in 1..Len(trace.steps)} : st.stepId = stepId

\* the changes two traces call for, as <<stepId, changeType>>: removed and
\* modified in the order of the agent trace, then added in that of the user trace
ExpectedChanges(agentTrace, userTrace) ==
    LET Differs(st) ==
            st.stepId \notin StepIds(userTrace)
                \/ ~EqualInputs(st.inputs, StepOf(userTrace, st.stepId).inputs)
        IsNew(st) == st.stepId \notin StepIds(agentTrace)
        gone == SelectSeq(agentTrace.steps, Differs)
        new == SelectSeq(userTrace.steps, IsNew)
    IN [k \in 1..Len(gone) |->
            <<gone[k].stepId,
              IF gone[k].stepId \in StepIds(userTrace) THEN "modified" ELSE "removed">>]
       \o [k \in 1..Len(new) |-> <<new[k].stepId, "added">>]

\* C28: computeCorrectionPatch emits one change for each step id on which the
\* traces differ and no other: removed for an id of the agent trace that the
\* user trace lacks, modified for an id of both whose inputs differ, added for
\* an id of the user trace alone; removed and modified come first, in the
\* order of the agent trace, then added in the order of the user trace.
C28_PatchListsEachDifference ==
    PatchReturned =>
        LET changes == memoryReturn.patch.changes
        IN [k \in 1..Len(changes) |-> <<changes[k].stepId, changes[k].changeType>>]
               = ExpectedChanges(memoryCall.agentTrace, memoryCall.userTrace)

\* C29: the patch is empty, and patchIsMeaningful false, exactly when the two
\* traces have the same step ids and equal inputs under each; the order of the
\* steps, their tools and their outputs make no correction.
C29_EmptyPatchIffSameInputs ==
    PatchReturned =>
        LET agentTrace == memoryCall.agentTrace
            userTrace == memoryCall.userTrace
            same == /\ StepIds(agentTrace) = StepIds(userTrace)
                    /\ \A id \in StepIds(agentTrace) :
                          EqualInputs(StepOf(agentTrace, id).inputs, StepOf(userTrace, id).inputs)
        IN /\ memoryReturn.patch.changes = <<>> <=> same
           /\ patchIsMeaningful(memoryReturn.patch) <=> ~same

VersionReturned == memoryCall.fn = "addVersionFromExecution" /\ memoryReturn.state = "returned"

\* C30: addVersionFromExecution on a record with activeVersion n returns a
\* record with activeVersion n + 1 whose versions are those of the record it
\* was given, unchanged, followed by one new version numbered n + 1; the
\* record it was given is as it was before the call.
C30_AddVersionAppendsOne ==
    VersionReturned =>
        LET existing == memoryCall.existing
            n == existing.activeVersion
            returned == memoryReturn.versioned.returned
        IN /\ returned.activeVersion = n + 1
           /\ Len(returned.versions) = Len(existing.versions) + 1
           /\ SubSeq(returned.versions, 1, Len(existing.versions)) = existing.versions
           /\ returned.versions[Len(returned.versions)].version = n + 1
           /\ [returned EXCEPT !.activeVersion = n, !.versions = existing.versions] = existing
           /\ memoryReturn.versioned.existing = existing

\* a record with two versions, the second active, was given a third
C30_Witness ==
    /\ VersionReturned
    /\ memoryCall.existing.activeVersion = 2
    /\ Len(memoryCall.existing.versions) = 2
    /\ memoryReturn.versioned.returned.activeVersion = 3
    /\ Len(memoryCall.userTrace.steps) = 2

(***************************************************************************)
(* Claims about the persistence of procedure records                      *)
(***************************************************************************)

\* the records the store holds
StoredItems == {memoryItems[userId][key] : userId \in UserIds, key \in MemoryKeys} \ {NoItem}

\* the records persisted so far: each invocation returns what it persisted
Persisted == {upserts[p].returned : p \in {q \in Invocations : upserts[q].state = "returned"}}

WellVersioned(record) ==
    /\ Len(record.versions) >= 1
    /\ \A i \in 1..Len(record.versions) : record.versions[i].version = i
    /\ record.activeVersion = record.versions[Len(record.versions)].version

\* C31: from an empty store and with upsertProcedureFromCorrection alone,
\* under every sequential or interleaved execution, every record persisted
\* has its versions numbered 1, 2, ... without gap or duplicate and its
\* activeVersion equal to the number of its last version.
C31_PersistedRecordsAreWellVersioned ==
    \A record \in Persisted \cup {item.data : item \in StoredItems} : WellVersioned(record)

\* two invocations for one record were in flight together, both persisted,
\* and a later invocation extended what they left
C31_Witness ==
    \E p, q, r \in Invocations :
        /\ upserts[p].state = "returned" /\ upserts[q].state = "returned"
        /\ upserts[r].state = "returned"
        /\ p \in upserts[q].concurrent
        /\ upserts[r].concurrent = {}
        /\ SlotOf(upserts[r]) = SlotOf(upserts[q])
        /\ Len(upserts[r].returned.versions) = 2
        /\ Item(upserts[r].returned) \in StoredItems

\* the invocations made so far for the record of userId and scope
InvocationsFor(userId, scope) ==
    {p \in Invocations :
        /\ upserts[p].state \in {"loaded", "returned"}
        /\ SlotOf(upserts[p]) = <<userId, buildMemoryKey(TaskKey, scope, userId)>>}

\* they ran one after another: none loaded while another was in flight
OneAfterAnother(userId, scope) ==
    \A p \in InvocationsFor(userId, scope) : upserts[p].concurrent = {}

Completed(userId, scope) ==
    {p \in InvocationsFor(userId, scope) : upserts[p].state = "returned"}

\* what the p-th invocation persists, given what was stored before it
PersistsNextVersion(p, before, after) ==
    IF ~before.present
    THEN /\ after.present
         /\ Len(after.data.versions) = 1
         /\ after.data.versions[1].version = 1
         /\ after.data.activeVersion = 1
    ELSE LET n == Len(before.data.versions)
         IN /\ after.present
            /\ Len(after.data.versions) = n + 1
            /\ SubSeq(after.data.versions, 1, n) = before.data.versions
            /\ after.data.versions[n + 1].version = n + 1
            /\ after.data.versions[n + 1].source = "corrected"
            /\ after.data.versions[n + 1].steps =
                   [i \in 1..Len(upserts[p].trace.steps) |-> StepTemplate(upserts[p].trace.steps[i])]
            /\ after.data.activeVersion = n + 1
            /\ after.data = [before.data EXCEPT !.versions = after.data.versions,
                                                !.activeVersion = n + 1]

\* C32: when the upserts for one (userId, taskKey, scope) run one after
\* another, the first persists a record with the single version 1 and each
\* later one persists the record stored before it extended by one version
\* with source corrected; after k of them loadProcedure returns a record
\* with k versions and activeVersion k.
C32_SequentialUpsertsAppend ==
    /\ [](\A userId \in UserIds, scope \in TaskScopes :
            (OneAfterAnother(userId, scope) /\ Completed(userId, scope) = InvocationsFor(userId, scope)
                /\ Completed(userId, scope) # {})
            => LET loaded == loadProcedure(memoryItems, userId, TaskKey, scope)
                   k == Cardinality(Completed(userId, scope))
               IN /\ loaded.present
                  /\ Len(loaded.data.versions) = k
                  /\ loaded.data.activeVersion = k)
    /\ [][\A p \in Invocations :
            (UpsertSaves(p) /\ OneAfterAnother(upserts[p].trace.userId, upserts[p].scope))
            => PersistsNextVersion(p,
                   loadProcedure(memoryItems, upserts[p].trace.userId, TaskKey, upserts[p].scope),
                   loadProcedure(memoryItems', upserts[p].trace.userId, TaskKey, upserts[p].scope))]_vars

\* three upserts for one record ran one after another
C32_Witness ==
    \E userId \in UserIds, scope \in TaskScopes :
        /\ OneAfterAnother(userId, scope)
        /\ Cardinality(Completed(userId, scope)) = MaxUpserts
        /\ Len(loadProcedure(memoryItems, userId, TaskKey, scope).data.versions) = MaxUpserts

\* the correction an invocation carries, as the version it persists holds it
CorrectionOf(p) ==
    [i \in 1..Len(upserts[p].trace.steps) |-> StepTemplate(upserts[p].trace.steps[i])]

HoldsCorrection(record, p) ==
    \E i \in 1..Len(record.versions) : record.versions[i].steps = CorrectionOf(p)

\* p and q are for the same record and both loaded it before either persisted
BothLoadedBeforeEitherPersisted(p, q) ==
    /\ p # q
    /\ upserts[p].state \in {"loaded", "returned"}
    /\ upserts[q].state \in {"loaded", "returned"}
    /\ SlotOf(upserts[p]) = SlotOf(upserts[q])
    /\ p \in upserts[q].concurrent
    /\ upserts[p].existing = upserts[q].existing

\* C33: when two invocations for the same (userId, taskKey, scope) both load
\* the record before either persists, both persist the same next version
\* number, the later write replaces the earlier one, and once both have
\* completed the stored record holds only one of the two corrections.
C33_InterleavedUpsertsLoseOne ==
    /\ [](\A p, q \in Invocations :
            (BothLoadedBeforeEitherPersisted(p, q)
                /\ upserts[p].state = "returned" /\ upserts[q].state = "returned")
            => LET stored == getItem(memoryItems, SlotOf(upserts[p])[1], SlotOf(upserts[p])[2]).data
               IN /\ upserts[p].returned.activeVersion = upserts[q].returned.activeVersion
                  /\ Len(upserts[p].returned.versions) = Len(upserts[q].returned.versions)
                  /\ ~(HoldsCorrection(stored, p) /\ HoldsCorrection(stored, q)))
    /\ [][\A p, q \in Invocations :
            (BothLoadedBeforeEitherPersisted(p, q) /\ upserts[p].state = "returned" /\ UpsertSaves(q))
            => LET after == getItem(memoryItems', SlotOf(upserts[q])[1], SlotOf(upserts[q])[2]).data
               IN /\ after = upserts'[q].returned
                  /\ ~HoldsCorrection(after, p)
                  /\ HoldsCorrection(after, q)]_vars

\* both of two overlapping invocations have completed and the store holds
\* the correction of the one that persisted last and not the other's
C33_Witness ==
    \E p, q \in Invocations :
        /\ BothLoadedBeforeEitherPersisted(p, q)
        /\ upserts[p].state = "returned" /\ upserts[q].state = "returned"
        /\ upserts[p].existing.present
        /\ LET stored == getItem(memoryItems, SlotOf(upserts[p])[1], SlotOf(upserts[p])[2]).data
           IN /\ HoldsCorrection(stored, p)
              /\ ~HoldsCorrection(stored, q)
              /\ stored.activeVersion = 2

\* a call of loadProcedure by userId for scope returns a record some other
\* user persisted with that scope
ReturnsRecordOfAnother(userId, scope) ==
    \A record \in Persisted :
        (record.userId # userId /\ record.scope = scope)
        => /\ lastLoad'.result.present
           /\ lastLoad'.result.data.scope = scope
           /\ lastLoad'.result.data.taskKey = record.taskKey

ReturnsOwnRecordOnly(userId) ==
    lastLoad'.result.present => lastLoad'.result.data.userId = userId

\* C34: a record persisted with scope project or global by one user is
\* returned by loadProcedure to any other user asking for the same task key
\* and scope; a record of scope user is never returned to a different user.
C34_ProjectAndGlobalAreShared ==
    [][\A userId \in UserIds, scope \in TaskScopes :
          LoadProcedure(userId, scope)
          => IF scope = "user" THEN ReturnsOwnRecordOnly(userId)
             ELSE ReturnsRecordOfAnother(userId, scope)]_vars

\* the half of C34 about the scope user, which the code keeps
UserScopeIsPerUser ==
    [][\A userId \in UserIds : LoadProcedure(userId, "user") => ReturnsOwnRecordOnly(userId)]_vars

(***************************************************************************)
(* Properties of runTask with a caller's onEvent (SpecRunTaskEvents) and   *)
(* over the transport of the client (SpecRemoteRun).                       *)
(***************************************************************************)

\* runTask has returned, and what it returned is a normalized result
ReturnedNormalized ==
    /\ rtpc = "done"
    /\ rtResult # NotReturned
    /\ rtResult.status \in TerminalStatus

\* C35: runTask never raises.  Whatever the request and whatever the client
\* and the onEvent callback do (create, status poll or result fetch
\* rejecting, any sequence of statuses, onEvent throwing), the invocation
\* makes at most maxLogicalRetries logical attempts and ends by returning
\* a normalized result whose status is completed, failed, cancelled or
\* timeout.
C35_RunTaskNeverRaises ==
    /\ <>(rtpc = "done")
    /\ [](rtpc \in {"start", "loop", "awaitCreate", "pollCheck", "awaitTask", "sleep",
                    "awaitResult", "done"})
    /\ [](rtAttempt <= maxLogicalRetries /\ Created(backendCalls) <= maxLogicalRetries)
    /\ [](rtpc = "done" <=> rtResult # NotReturned)
    /\ [](rtpc = "done" => ReturnedNormalized)
    /\ [][rtpc = "done" => UNCHANGED taskVars]_vars

\* runTask has returned after onEvent threw on a result event and a later
\* attempt ended in a rejected status poll
C35_Witness ==
    /\ ReturnedNormalized
    /\ rtLastError.kind = "client"
    /\ \E j, k \in 1..Len(backendCalls) :
          /\ backendCalls[k].op = "getTaskResult" /\ backendCalls[k].outcome = "resolved"
          /\ backendCalls[j].op = "getTask" /\ backendCalls[j].outcome = "rejected"
          /\ k < j

\* the HTTP requests sent to the task-creation endpoint so far
CreationRequests == httpAttempts + (IF rtpc = "awaitCreate" THEN 1 ELSE 0)

\* C36: one runTask invocation starts at most maxLogicalRetries logical
\* attempts, each sends at most maxRetries + 1 HTTP requests to the
\* task-creation endpoint, and so at most maxLogicalRetries * (maxRetries + 1)
\* creation requests are sent per invocation (12 with the defaults), also
\* when every one of them fails.
C36_RetryLayersCompose ==
    /\ rtAttempt <= maxLogicalRetries
    /\ Created(backendCalls) <= maxLogicalRetries
    /\ rtpc = "awaitCreate" => attempt + 1 <= maxRetries + 1
    /\ CreationRequests <= Created(backendCalls) * (maxRetries + 1)
    /\ CreationRequests <= maxLogicalRetries * (maxRetries + 1)
    /\ (maxLogicalRetries = DefaultMaxLogicalRetries /\ maxRetries = DefaultMaxRetries)
          => CreationRequests <= 12

\* with the defaults every creation request failed and runTask returned
\* after the twelfth
C36_Witness ==
    /\ maxLogicalRetries = DefaultMaxLogicalRetries
    /\ maxRetries = DefaultMaxRetries
    /\ rtpc = "done"
    /\ httpAttempts = 12
    /\ \A i \in 1..Len(backendCalls) :
          backendCalls[i].op = "createTask" /\ backendCalls[i].outcome = "rejected"

(***************************************************************************)
(* Properties of pollUntilDone against the clock (SpecPolling).            *)
(***************************************************************************)

\* how long the task now polled has been polled
TimeOnTask == now - polledSince

\* C37: the budget is charged per logical attempt.  The clock of the poller
\* starts anew with every task created, runTask returns the timeout result
\* only when the time spent on the task now polled exceeds the budget, and
\* a clock test within the budget of the current task goes on to the status
\* request however much time earlier attempts took; so one invocation may
\* poll for maxLogicalRetries full budgets before it returns.
C37_BudgetIsPerAttempt ==
    /\ [](rtpc \in {"pollCheck", "awaitTask", "sleep", "awaitResult"} => start = polledSince)
    /\ [](rtLastError = TaskTimeout => TimeOnTask > rtTimeoutMs)
    /\ [][(PollCheck /\ TimeOnTask <= rtTimeoutMs)
            => (rtpc' = "awaitTask" /\ rtResult' = NotReturned)]_vars

\* the third task completed after each of three tasks was polled for a full
\* budget
C37_Witness ==
    /\ rtpc = "done"
    /\ rtResult.status = "completed"
    /\ maxLogicalRetries = DefaultMaxLogicalRetries
    /\ Created(backendCalls) = maxLogicalRetries
    /\ now = maxLogicalRetries * rtTimeoutMs
    /\ TimeOnTask = rtTimeoutMs

\* the poller gave up on its budget: runTask returned its own timeout result
BudgetTimeout == rtpc = "done" /\ rtLastError = TaskTimeout /\ rtResult = TimeoutResult

\* the last status observed for the task now polled was not terminal, and
\* its result was never asked for
LastObservedNonTerminal ==
    /\ finalTask \notin TerminalStatus
    /\ LastCall.op = "getTask"
    /\ LastCall.task = Created(backendCalls)
    /\ LastCall.outcome = "running"
    /\ FetchesOf(Created(backendCalls)) = {}

\* C38 as stated: whenever runTask returns status timeout, the last status
\* it observed for the task was non-terminal.
C38_TimeoutStatusMeansNonTerminalSeen ==
    (rtpc = "done" /\ rtResult.status = "timeout") => LastObservedNonTerminal

\* C38, amended: the timeout decision is taken from the clock alone, at the
\* top of a poll iteration and before its status request; whenever runTask
\* returns the timeout result of that decision, the last status it observed
\* for the task was non-terminal, whatever the backend holds by then.
C38_TimeoutIsDecidedByClockAlone ==
    /\ [](BudgetTimeout => LastObservedNonTerminal)
    /\ [][PollCheck =>
            IF now - start > rtTimeoutMs
            THEN /\ rtpc' = "done"
                 /\ rtResult' = TimeoutResult
                 /\ backendCalls' = backendCalls
            ELSE /\ rtpc' = "awaitTask"
                 /\ rtResult' = NotReturned
                 /\ backendCalls'[Len(backendCalls')].op = "getTask"]_vars
    /\ [][rtResult' # rtResult /\ rtResult' = TimeoutResult => PollCheck]_vars

\* runTask returned the timeout result while the task had completed on the
\* backend during the last sleep
C38_Witness ==
    /\ BudgetTimeout
    /\ onBackend = "completed"
    /\ LastObservedNonTerminal
    /\ \A i \in 1..Len(backendCalls) : backendCalls[i].outcome # "terminal"

(***************************************************************************)
(* The text compiler's output under the structured compiler (SpecCompile). *)
(***************************************************************************)

\* C39: every command sequence parseDslText returns is accepted by
\* validateDslJson, which returns it unchanged (same length, same kinds, same
\* fields); so a request whose text was compiled and stored back into it is
\* never rejected as an invalid script when ensureValidDsl validates it again.
C39_CompiledTextValidates ==
    compileOutput.state = "validatedAgain" =>
        /\ compileOutput.again.kind = "commands"
        /\ Len(compileOutput.again.commands) = Len(compileOutput.result.commands)
        /\ \A i \in 1..Len(compileOutput.result.commands) :
              /\ compileOutput.again.commands[i].type = compileOutput.result.commands[i].type
              /\ compileOutput.again.commands[i] = compileOutput.result.commands[i]
        /\ validateDslJson(Stored(compileOutput.result.commands))
              = CompileReturned(compileOutput.result.commands)

\* a text of three commands, one with a timeout that is not a number, was
\* compiled and validated again
C39_Witness ==
    /\ compileOutput.state = "validatedAgain"
    /\ Len(compileOutput.again.commands) = MaxLines
    /\ \E i \in 1..MaxLines :
          /\ compileOutput.again.commands[i].type = "waitForSelector"
          /\ compileOutput.again.commands[i].args.timeoutMs = NaN

====
